---------------------------- MODULE Spec2Model ----------------------------
(***************************************************************************)
(* A model of ClawTriage's duplicate-detection engine: the pairwise        *)
(* scorer (packages/core scoring), the canonical diff (packages/core       *)
(* diff.ts) and the ingest worker's analysis pass over the storage and     *)
(* LSH index (apps/worker index.ts, packages/storage).                     *)
(*                                                                         *)
(* Numbers.  Similarity values, weights, caps and thresholds are reals in  *)
(* the source.  Here a similarity value, a weight, a cap or a threshold v  *)
(* is the integer v * Den, and a score (a sum of weight * similarity) is   *)
(* the integer score * Den * Den, so that every comparison of the source   *)
(* is an exact comparison of integers.                                     *)
(***************************************************************************)
EXTENDS Integers, Sequences, FiniteSets, TLC

VARIABLES
  mode,      \* which part of the program this behaviour exercises
  scores,    \* PairScores handed to scoreCandidate
  thr,       \* the loaded Thresholds (with runtime.reviewScoreThreshold)
  scored,    \* the ScoredCategory returned, or NoResult before the call
  files0,    \* a PatchInput[] handed to buildCanonicalDiffHash
  files1,    \* the same list after one edit
  edit,      \* the edit that led from files0 to files1
  canon0,    \* buildCanonicalDiffHash(files0), or NoCanon before the call
  canon1,    \* buildCanonicalDiffHash(files1), or NoCanon before the call
  tgt,       \* what processIngestPr extracted from the head it analyses
  cand,      \* what a candidate head's earlier analysis extracted and stored
  gh,            \* GitHub: each PR's head, state and the kind of its second head
  pull_requests, \* table pull_requests
  pathRows,      \* (pr, head) keys with rows in pr_changed_paths and pr_symbols
  sigRows,       \* (pr, head) keys with rows in pr_channel_signatures
  runs,          \* table pr_analysis_runs, in the order of insertion
  edges,         \* table pr_candidate_edges
  lsh,           \* the Redis LSH index: pairs of a bucket id and a member
  jobs,          \* the BullMQ ingest queue: job id -> job
  started,       \* the number of jobs the worker has taken so far
  failures,      \* the number of jobs that have failed so far
  deliveries,    \* table webhook_deliveries: delivery id -> status
  requests,      \* the POST /webhooks/github requests in flight
  scan,          \* processPublicPrScan: its position and the job id in hand
  created,       \* job id -> how many times a job of that id was created
  failedOf,      \* job id -> how many times a job of that id has failed
  addedBy,       \* delivery id -> how many jobs its requests have created
  now,           \* the time of the Redis server, in days
  redis,         \* Redis: key -> the members of the set and when it expires
  signatures,    \* table pr_channel_signatures, rows of channel PRODUCTION
  writers,       \* the insertIntoLsh pipelines in flight
  analyses,      \* the number of analyses started so far
  insertedAt,    \* key -> member -> when it was last added since the key came to be
  genStore,      \* what the tables and the index hold that matches the target
  genLimit,      \* thresholds.candidates.max_candidates_from_lsh as loaded
  gen,           \* one run of the candidate generator of processIngestPr
  cfgDoc,        \* the two YAML documents as parsed: path -> kind of value
  cfgWorker,     \* the worker process: how far its start has come
  dupSets,       \* what buildDuplicateSets returns for the repository
  pageLimit,     \* the limit of the requests
  response,      \* the last answer of GET /api/repos/:repoId/duplicate-sets
  sep,           \* path.sep of the platform the process runs on
  rules,         \* the ClassificationRules as loaded
  changed,       \* the changed files of a PR head, as GitHub lists them
  classified     \* what classifyFiles returned for them

scoreVars == <<scores, thr, scored>>
diffVars == <<files0, files1, edit, canon0, canon1>>
pairVars == <<tgt, cand>>
pipeVars == <<gh, pull_requests, pathRows, sigRows, runs, edges, lsh, jobs, started, failures>>
webVars == <<deliveries, requests, scan, created, failedOf, addedBy>>
indexVars == <<now, redis, signatures, writers, analyses, insertedAt>>
genVars == <<genStore, genLimit, gen>>
cfgVars == <<cfgDoc, cfgWorker>>
cursorVars == <<dupSets, pageLimit, response>>
classifyVars == <<sep, rules, changed, classified>>
lateVars == <<classifyVars>>
restVars == <<webVars, indexVars, genVars, cfgVars, cursorVars, lateVars>>
vars == <<mode, scoreVars, diffVars, pairVars, pipeVars, restVars>>

NoResult == [category |-> "NONE", finalScore |-> 0, prodScore |-> 0]

-----------------------------------------------------------------------------
(* Bounds *)

\* Similarity values are drawn from the grid 0, 1/Den, ..., 1.
Den == 2

One == Den * Den          \* the score 1.0
SigVals == 0 .. Den

MinOf(a, b) == IF a <= b THEN a ELSE b
MaxOf(a, b) == IF a >= b THEN a ELSE b

-----------------------------------------------------------------------------
(* The scorer *)

clamp01(value) ==
  IF value < 0 THEN 0
  ELSE IF value > One THEN One
  ELSE value

computeProdScore(s, t) ==
  clamp01(  t.w_minhash * s.prodMinhash
          + t.w_exports * s.prodExports
          + t.w_symbols * s.prodSymbols
          + t.w_files   * s.prodFiles
          + t.w_imports * s.prodImports)

\* The test contribution without its cap.
testContribution_uncapped(s, t) == t.w_tests * s.testsIntent

testContribution(s, t) == MinOf(t.w_tests * s.testsIntent, t.test_score_cap * Den)

docContribution(s, t) == MinOf(t.w_docs * s.docsStruct, t.doc_score_cap * Den)

finalScoreOf(s, t) ==
  clamp01(computeProdScore(s, t) + testContribution(s, t) + docContribution(s, t))

\* The four conditions of scoreCandidate, in the order the code tests them.
IsSameChange(s, t) ==
  \/ s.prodDiffExact = 1
  \/ /\ s.prodMinhash >= t.sc_minhash
     /\ s.prodFiles >= t.sc_files

IsSameFeature(s, t) ==
  /\ computeProdScore(s, t) >= t.sf_prod * Den
  /\ MaxOf(s.testsIntent, MaxOf(s.docsStruct, s.prodMinhash)) >= t.sf_support

IsCompetingImpl(s, t) ==
  /\ s.testsIntent >= t.ci_tests
  /\ computeProdScore(s, t) <= t.ci_prod_max * Den

IsRelated(s, t) == finalScoreOf(s, t) >= t.review * Den

\* The rule order with COMPETING_IMPLEMENTATION tested before SAME_FEATURE.
CategoryOf_competingFirst(s, t) ==
  IF IsSameChange(s, t) THEN "SAME_CHANGE"
  ELSE IF IsCompetingImpl(s, t) THEN "COMPETING_IMPLEMENTATION"
  ELSE IF IsSameFeature(s, t) THEN "SAME_FEATURE"
  ELSE IF IsRelated(s, t) THEN "RELATED"
  ELSE "NOT_RELATED"

CategoryOf(s, t) ==
  IF IsSameChange(s, t) THEN "SAME_CHANGE"
  ELSE IF IsSameFeature(s, t) THEN "SAME_FEATURE"
  ELSE IF IsCompetingImpl(s, t) THEN "COMPETING_IMPLEMENTATION"
  ELSE IF IsRelated(s, t) THEN "RELATED"
  ELSE "NOT_RELATED"

scoreCandidate(s, t) ==
  [category   |-> CategoryOf(s, t),
   finalScore |-> finalScoreOf(s, t),
   prodScore  |-> computeProdScore(s, t)]

-----------------------------------------------------------------------------
(* Inputs of the scorer *)

PairScores ==
  [prodDiffExact : {0, 1},
   prodMinhash : SigVals, prodFiles : SigVals,
   prodExports : SigVals, prodSymbols : SigVals, prodImports : SigVals,
   testsIntent : SigVals, docsStruct : SigVals]

\* loadThresholds accepts any finite number in every numeric field: it checks
\* the type, never the range or the relation of a weight to its cap.
ThresholdsOf(wp, wt, wd, ct, cd, sf, cm) ==
  [w_minhash |-> wp[1], w_exports |-> wp[2], w_symbols |-> wp[3],
   w_files |-> wp[4], w_imports |-> wp[5],
   w_tests |-> wt, w_docs |-> wd,
   test_score_cap |-> ct, doc_score_cap |-> cd,
   sc_minhash |-> Den, sc_files |-> Den,
   sf_prod |-> sf, sf_support |-> 1,
   ci_tests |-> Den, ci_prod_max |-> cm,
   review |-> 1]

ProdWeights == { <<1, 0, 0, 1, 0>>, <<0, 1, 1, 0, 1>> }

ThresholdConfigs ==
  { ThresholdsOf(wp, wt, Den, ct, cd, sf, cm) :
      wp \in ProdWeights, wt \in {1, Den}, ct \in {1, Den}, cd \in {0, 1},
      sf \in {1, Den}, cm \in {0, 1} }

-----------------------------------------------------------------------------
(* Idle values of the variables a specification does not use *)

NoCanon == [canonicalText |-> <<>>, hash |-> <<>>]

NoScores ==
  [prodDiffExact |-> 0, prodMinhash |-> 0, prodFiles |-> 0, prodExports |-> 0,
   prodSymbols |-> 0, prodImports |-> 0, testsIntent |-> 0, docsStruct |-> 0]

ScoreIdle ==
  /\ scores = NoScores
  /\ thr = ThresholdsOf(<<0, 0, 0, 0, 0>>, 0, 0, 0, 0, 0, 0)
  /\ scored = NoResult

DiffIdle ==
  /\ files0 = <<>> /\ files1 = <<>> /\ edit = "none"
  /\ canon0 = NoCanon /\ canon1 = NoCanon

NoSignals ==
  [paths |-> {}, lines |-> {}, shingles |-> {}, exports |-> {}, symbols |-> {},
   imports |-> {}, tests |-> {}, docs |-> {}]

PairIdle == tgt = NoSignals /\ cand = NoSignals

WebIdle ==
  /\ deliveries = <<>> /\ requests = <<>> /\ scan = <<>>
  /\ created = <<>> /\ failedOf = <<>> /\ addedBy = <<>>

IndexIdle ==
  /\ now = 0 /\ redis = <<>> /\ signatures = {} /\ writers = <<>>
  /\ analyses = 0 /\ insertedAt = <<>>

GenIdle == genStore = <<>> /\ genLimit = 0 /\ gen = <<>>

CfgIdle == cfgDoc = <<>> /\ cfgWorker = <<>>

CursorIdle == dupSets = <<>> /\ pageLimit = 0 /\ response = <<>>

ClassifyIdle == sep = "/" /\ rules = <<>> /\ changed = <<>> /\ classified = <<>>

LateIdle == ClassifyIdle

RestIdle == WebIdle /\ IndexIdle /\ GenIdle /\ CfgIdle /\ CursorIdle /\ LateIdle

PipeIdle ==
  /\ gh = <<>> /\ pull_requests = <<>> /\ jobs = <<>>
  /\ pathRows = {} /\ sigRows = {} /\ runs = <<>> /\ edges = {} /\ lsh = {}
  /\ started = 0 /\ failures = 0

-----------------------------------------------------------------------------
(* Specification of the scorer: one call of scoreCandidate on drawn inputs *)

InitScore ==
  /\ mode = "score"
  /\ scores \in PairScores
  /\ thr \in ThresholdConfigs
  /\ scored = NoResult
  /\ DiffIdle /\ PairIdle /\ PipeIdle /\ RestIdle

Score ==
  /\ mode = "score"
  /\ scored = NoResult
  /\ scored' = scoreCandidate(scores, thr)
  /\ UNCHANGED <<mode, scores, thr, diffVars, pairVars, pipeVars, restVars>>

NextScore == Score

SpecScore == InitScore /\ [][NextScore]_vars

-----------------------------------------------------------------------------
(* Claims about the scorer *)

\* The conditions of the four rules as the specification words them, read off
\* the inputs and the scores the call returned.
RuleSameChange ==
  \/ scores.prodDiffExact = 1
  \/ (scores.prodMinhash >= thr.sc_minhash /\ scores.prodFiles >= thr.sc_files)

RuleSameFeature ==
  /\ scored.prodScore >= thr.sf_prod * Den
  /\ \E v \in {scores.testsIntent, scores.docsStruct, scores.prodMinhash} :
        v >= thr.sf_support

RuleCompetingImpl ==
  /\ scores.testsIntent >= thr.ci_tests
  /\ scored.prodScore <= thr.ci_prod_max * Den

RuleRelated == scored.finalScore >= thr.review * Den

\* C1: the category returned is that of the first rule that holds, in the
\* order SAME_CHANGE, SAME_FEATURE, COMPETING_IMPLEMENTATION, RELATED,
\* NOT_RELATED; an exact-hash match is SAME_CHANGE whatever the other signals
\* are, and a pair that passes rule 1 by and meets both the SAME_FEATURE and
\* the COMPETING_IMPLEMENTATION condition is SAME_FEATURE.
C1_FirstMatchingRuleWins ==
  scored # NoResult =>
    /\ scored.category =
         (CASE RuleSameChange -> "SAME_CHANGE"
            [] ~RuleSameChange /\ RuleSameFeature -> "SAME_FEATURE"
            [] ~RuleSameChange /\ ~RuleSameFeature /\ RuleCompetingImpl
                 -> "COMPETING_IMPLEMENTATION"
            [] ~RuleSameChange /\ ~RuleSameFeature /\ ~RuleCompetingImpl
                 /\ RuleRelated -> "RELATED"
            [] OTHER -> "NOT_RELATED")
    /\ (scores.prodDiffExact = 1 => scored.category = "SAME_CHANGE")
    /\ (~RuleSameChange /\ RuleSameFeature /\ RuleCompetingImpl
          => scored.category = "SAME_FEATURE")

\* A scored pair that meets both the SAME_FEATURE and the
\* COMPETING_IMPLEMENTATION condition, with no exact-hash match.
C1_Witness ==
  /\ scored # NoResult
  /\ scores.prodDiffExact = 0
  /\ RuleSameFeature /\ RuleCompetingImpl
  /\ scored.category = "SAME_FEATURE"

NoProductionSignal ==
  /\ scores.prodDiffExact = 0 /\ scores.prodMinhash = 0 /\ scores.prodFiles = 0
  /\ scores.prodExports = 0 /\ scores.prodSymbols = 0 /\ scores.prodImports = 0

FullTestAndDocSignal == scores.testsIntent = Den /\ scores.docsStruct = Den

CapsSum == thr.test_score_cap + thr.doc_score_cap

\* C3 as stated: with testsIntent = docsStruct = 1 and no production signal,
\* the final score is testCap + docCap under every accepted configuration,
\* and is 1.0 only if the caps sum to 1.0.
C3_FinalScoreIsSumOfCaps ==
  (scored # NoResult /\ NoProductionSignal /\ FullTestAndDocSignal) =>
    /\ scored.finalScore = CapsSum * Den
    /\ (scored.finalScore = One => CapsSum = Den)

\* C3 amended: under the same inputs the final score is
\* clamp01(min(w_tests, testCap) + min(w_docs, docCap)); it is testCap + docCap
\* when each of the two weights is at least its cap and 0 <= testCap + docCap
\* <= 1, and in that case it is 1.0 only if the caps sum to 1.0.
C3_FinalScoreIsCappedSum ==
  (scored # NoResult /\ NoProductionSignal /\ FullTestAndDocSignal) =>
    /\ scored.finalScore =
         clamp01(  MinOf(thr.w_tests, thr.test_score_cap) * Den
                 + MinOf(thr.w_docs, thr.doc_score_cap) * Den)
    /\ (   thr.w_tests >= thr.test_score_cap /\ thr.w_docs >= thr.doc_score_cap
         /\ CapsSum >= 0 /\ CapsSum <= Den
         => /\ scored.finalScore = CapsSum * Den
            /\ (scored.finalScore = One => CapsSum = Den))

\* A scored pair with full test and doc similarity, no production signal, a
\* test weight above its cap, and a final score of testCap + docCap below 1.
C3_Witness ==
  /\ scored # NoResult /\ NoProductionSignal /\ FullTestAndDocSignal
  /\ thr.w_tests > thr.test_score_cap /\ thr.w_docs >= thr.doc_score_cap
  /\ CapsSum > 0 /\ CapsSum < Den
  /\ scored.finalScore = CapsSum * Den

-----------------------------------------------------------------------------
(* The canonical diff (packages/core/src/diff.ts) *)

(* A line of a patch is the sequence of its characters, a patch the sequence
   of its lines (patch.split("\n")), and NoPatch a patch that is null,
   undefined or "" (the three values for which !file.patch holds). *)
NoPatch == <<>>

StartsWith(line, prefix) ==
  /\ Len(line) >= Len(prefix)
  /\ SubSeq(line, 1, Len(prefix)) = prefix

METADATA_LINE_PREFIXES ==
  { <<"d","i","f","f"," ","-","-","g","i","t">>,
    <<"i","n","d","e","x"," ">>,
    <<"-","-","-"," ">>,
    <<"+","+","+"," ">>,
    <<"@","@"," ">>,
    <<"@","@">> }

NoNewlineMarker ==
  <<"\\"," ","N","o"," ","n","e","w","l","i","n","e"," ","a","t"," ",
    "e","n","d"," ","o","f"," ","f","i","l","e">>

isMetadataLine(line) == \E prefix \in METADATA_LINE_PREFIXES : StartsWith(line, prefix)

IsPlusOrMinus(line) == StartsWith(line, <<"+">>) \/ StartsWith(line, <<"-">>)

KeepLine(line) ==
  /\ ~(StartsWith(line, NoNewlineMarker) \/ isMetadataLine(line))
  /\ IsPlusOrMinus(line)

\* Every line of the patch kept, context lines and headers too.
extractAddedRemovedLines_everyLine(patch) == patch

extractAddedRemovedLines(patch) == SelectSeq(patch, KeepLine)

Whitespace == {" ", "\t"}

\* line.replace(/\s+$/g, "")
RECURSIVE StripTrailingWs(_)
StripTrailingWs(line) ==
  IF line # <<>> /\ line[Len(line)] \in Whitespace
  THEN StripTrailingWs(SubSeq(line, 1, Len(line) - 1))
  ELSE line

\* The order a.path.localeCompare(b.path) puts the model's paths in.
PathRank == [p \in {"a.ts", "b.ts", "c.ts"} |->
               CASE p = "a.ts" -> 1 [] p = "b.ts" -> 2 [] p = "c.ts" -> 3]

RemoveAt(seq, i) == SubSeq(seq, 1, i - 1) \o SubSeq(seq, i + 1, Len(seq))

\* [...files].sort(...): a stable sort by path.
RECURSIVE SortByPath(_)
SortByPath(files) ==
  IF files = <<>> THEN <<>>
  ELSE LET i == CHOOSE i \in 1 .. Len(files) :
                  \A j \in 1 .. Len(files) :
                    \/ PathRank[files[i].path] < PathRank[files[j].path]
                    \/ PathRank[files[i].path] = PathRank[files[j].path] /\ i <= j
       IN <<files[i]>> \o SortByPath(RemoveAt(files, i))

\* The files in the order given: the sort left out.
SortedFiles_unsorted(files) == files

SortedFiles(files) == SortByPath(files)

FileMarker(path) == <<"file:", path>>

RECURSIVE MapStrip(_)
MapStrip(lines) ==
  IF lines = <<>> THEN <<>>
  ELSE <<StripTrailingWs(Head(lines))>> \o MapStrip(Tail(lines))

SectionsOfFile(file) ==
  <<FileMarker(file.path)>> \o
    (IF file.patch = NoPatch THEN <<>>
     ELSE MapStrip(extractAddedRemovedLines(file.patch)))

RECURSIVE SectionsOf(_)
SectionsOf(sorted) ==
  IF sorted = <<>> THEN <<>>
  ELSE SectionsOfFile(Head(sorted)) \o SectionsOf(Tail(sorted))

(* sections.join("\n"): no section holds a line break (a line comes out of
   split("\n")), so the joined text and the sequence of sections determine each
   other, and the text is kept as that sequence. *)
canonicalizeProductionDiff(files) == SectionsOf(SortedFiles(files))

(* SHA-256 is taken to be collision-free: the digest of a text is the text
   under a tag, so two digests are equal exactly when the texts are. *)
sha256Hex(text) == <<"sha256", text>>

buildCanonicalDiffHash(files) ==
  [canonicalText |-> canonicalizeProductionDiff(files),
   hash |-> sha256Hex(canonicalizeProductionDiff(files))]

-----------------------------------------------------------------------------
(* Inputs of the canonical diff *)

MaxPatchLines == 2

HunkHeader(n) == <<"@", "@", " ", "-", n, " ", "+", n, " ", "@", "@">>
HunkNumbers == {"1", "2"}

\* What follows the +/- marker of an added or removed line.
Contents ==
  { <<"a">>, <<"b">>, <<"a", " ">>, <<"-", "-", " ", "a">>, <<"-", "-", " ", "b">> }

PatchLines ==
  { HunkHeader("1"),
    <<"+", "a">>,                    \* the added line "a"
    <<"-", "-", "-", " ", "a">>,     \* the removed line "-- a"
    <<" ", "a">>,                    \* a context line
    NoNewlineMarker }

RECURSIVE SeqsUpTo(_, _)
SeqsUpTo(S, n) ==
  IF n = 0 THEN {<<>>}
  ELSE LET shorter == SeqsUpTo(S, n - 1)
       IN shorter \cup { Append(q, x) : q \in { r \in shorter : Len(r) = n - 1 }, x \in S }

Patches == SeqsUpTo(PatchLines, MaxPatchLines)   \* <<>> is NoPatch

DiffPaths == {"a.ts", "b.ts"}

PatchInputs == [path : DiffPaths, patch : Patches]

\* File lists as the GitHub API returns them: no path twice.
FileLists ==
  { fl \in SeqsUpTo(PatchInputs, Cardinality(DiffPaths)) :
      /\ fl # <<>>
      /\ \A i, j \in 1 .. Len(fl) : i # j => fl[i].path # fl[j].path }

-----------------------------------------------------------------------------
(* Specification of the canonical diff: a file list is drawn, one edit is made
   to it, and buildCanonicalDiffHash is applied to both. *)

InitDiff ==
  /\ mode = "diff"
  /\ files0 \in FileLists
  /\ files1 = files0
  /\ edit = "none"
  /\ canon0 = NoCanon /\ canon1 = NoCanon
  /\ ScoreIdle /\ PairIdle /\ PipeIdle /\ RestIdle

HashBoth(edited, kind) ==
  /\ files1' = edited
  /\ edit' = kind
  /\ canon0' = buildCanonicalDiffHash(files0)
  /\ canon1' = buildCanonicalDiffHash(edited)
  /\ UNCHANGED <<mode, files0, scoreVars, pairVars, pipeVars, restVars>>

Reorderings(fl) ==
  { q \in SeqsUpTo({ fl[i] : i \in 1 .. Len(fl) }, Len(fl)) :
      /\ Len(q) = Len(fl)
      /\ \A i \in 1 .. Len(fl) : \E j \in 1 .. Len(q) : q[j] = fl[i] }

\* The same files in another order.
Reorder ==
  /\ mode = "diff" /\ edit = "none"
  /\ \E q \in Reorderings(files0) :
       /\ q # files0
       /\ HashBoth(q, "reorder")

ReplaceLine(fl, i, j, line) ==
  [fl EXCEPT ![i].patch = [fl[i].patch EXCEPT ![j] = line]]

\* A hunk header with other numbers, every other line as it was.
RenumberHunk ==
  /\ mode = "diff" /\ edit = "none"
  /\ \E i \in 1 .. Len(files0) : \E j \in 1 .. Len(files0[i].patch) :
     \E n, m \in HunkNumbers :
       /\ files0[i].patch[j] = HunkHeader(n)
       /\ m # n
       /\ HashBoth(ReplaceLine(files0, i, j, HunkHeader(m)), "renumber")

\* An added or removed line with another content, its marker as it was.
EditContent ==
  /\ mode = "diff" /\ edit = "none"
  /\ \E i \in 1 .. Len(files0) : \E j \in 1 .. Len(files0[i].patch) :
     \E c \in Contents :
       /\ IsPlusOrMinus(files0[i].patch[j])
       /\ Tail(files0[i].patch[j]) # c
       /\ HashBoth(ReplaceLine(files0, i, j, <<Head(files0[i].patch[j])>> \o c),
                   "content")

NextDiff == Reorder \/ RenumberHunk \/ EditContent

SpecDiff == InitDiff /\ [][NextDiff]_vars

-----------------------------------------------------------------------------
(* Claims about the canonical diff *)

Hashed == canon0 # NoCanon /\ canon1 # NoCanon

\* The +/- lines of a file list, file by file in the order given.
PlusMinusLinesOf(fl) ==
  [i \in 1 .. Len(fl) |-> SelectSeq(fl[i].patch, IsPlusOrMinus)]

\* The places where the two file lists hold a different line.
EditedPlaces ==
  { <<i, j>> \in (1 .. Len(files0)) \X (1 .. MaxPatchLines + 1) :
      /\ i <= Len(files1)
      /\ j <= Len(files0[i].patch) /\ j <= Len(files1[i].patch)
      /\ files0[i].patch[j] # files1[i].patch[j] }

\* C7: two file lists that differ only in the order of the files, or only in
\* the numbers of a hunk header while every +/- line is the same, have the same
\* canonical diff hash.
C7_HashIgnoresOrderAndHunkNumbers ==
  (edit \in {"reorder", "renumber"} /\ Hashed) =>
     /\ canon1.hash = canon0.hash
     /\ canon1.canonicalText = canon0.canonicalText

\* Two files with +/- lines were swapped and the hash stayed.
C7_Witness ==
  /\ edit = "reorder" /\ Hashed
  /\ files1 # files0
  /\ Len(files0) = 2
  /\ \A i \in 1 .. 2 : PlusMinusLinesOf(files0)[i] # <<>>
  /\ PlusMinusLinesOf(files0)[1] # PlusMinusLinesOf(files0)[2]
  /\ canon1.hash = canon0.hash

\* C8: a change of the content of an added or removed line, other than in its
\* trailing whitespace, changes the canonical text and the hash.
C8_ContentChangeChangesHash ==
  (/\ edit = "content" /\ Hashed
   /\ \E pl \in EditedPlaces :
        StripTrailingWs(files0[pl[1]].patch[pl[2]]) #
          StripTrailingWs(files1[pl[1]].patch[pl[2]]))
  => /\ canon1.canonicalText # canon0.canonicalText
     /\ canon1.hash # canon0.hash

\* The files of a list in path order, as the text is to list them.
RECURSIVE InPathOrder(_, _)
InPathOrder(fl, rank) ==
  IF rank > Cardinality(DOMAIN PathRank) THEN <<>>
  ELSE SelectSeq(fl, LAMBDA f : PathRank[f.path] = rank) \o InPathOrder(fl, rank + 1)

RECURSIVE Flatten(_)
Flatten(seqs) ==
  IF seqs = <<>> THEN <<>> ELSE Head(seqs) \o Flatten(Tail(seqs))

\* An added or removed line that does not begin with "--- " or "+++ ".
IsKeptChange(line) ==
  /\ IsPlusOrMinus(line)
  /\ ~StartsWith(line, <<"-", "-", "-", " ">>)
  /\ ~StartsWith(line, <<"+", "+", "+", " ">>)

\* The text that holds, file by file, the marker line and then the +/- lines
\* of the patch that begin with neither "--- " nor "+++ ", marker kept and
\* trailing whitespace removed.
MarkedChangesText(ordered) ==
  Flatten([i \in 1 .. Len(ordered) |->
             LET kept == SelectSeq(ordered[i].patch, IsKeptChange)
             IN <<FileMarker(ordered[i].path)>>
                  \o [j \in 1 .. Len(kept) |-> StripTrailingWs(kept[j])]])

\* The text that holds, file by file, the marker line and then every +/- line
\* of the patch without its marker and without trailing whitespace.
UnmarkedChangesText(ordered) ==
  Flatten([i \in 1 .. Len(ordered) |->
             LET changes == SelectSeq(ordered[i].patch, IsPlusOrMinus)
             IN <<FileMarker(ordered[i].path)>>
                  \o [j \in 1 .. Len(changes) |->
                        StripTrailingWs(Tail(changes[j]))]])

\* C21 as stated: the canonical text holds, per file in path order, the
\* file:<path> marker line and then every added or removed line without its
\* leading +/- marker and without trailing whitespace, in original order.
C21_TextHoldsChangesWithoutMarker ==
  Hashed =>
    /\ canon0.canonicalText =
         UnmarkedChangesText(InPathOrder(files0, 1))
    /\ canon1.canonicalText =
         UnmarkedChangesText(InPathOrder(files1, 1))

\* C21 amended: the canonical text holds, per file in path order, the
\* file:<path> marker line and then every line of the patch that starts with +
\* or - but not with "--- " or "+++ ", with its +/- marker kept and its
\* trailing whitespace removed, in original order.
C21_TextHoldsMarkedChanges ==
  Hashed =>
    /\ canon0.canonicalText =
         MarkedChangesText(InPathOrder(files0, 1))
    /\ canon1.canonicalText =
         MarkedChangesText(InPathOrder(files1, 1))

\* Two files given out of path order, the first of them with a hunk header and
\* an added line, and an edit that left a line with trailing whitespace: the
\* text lists a.ts first and holds the added line with its marker.
C21_Witness ==
  /\ Hashed /\ edit = "content"
  /\ Len(files0) = 2 /\ files0[1].path = "b.ts"
  /\ files0[1].patch = <<HunkHeader("1"), <<"+", "a">>>>
  /\ files1[1].patch = <<HunkHeader("1"), <<"+", "a", " ">>>>
  /\ files0[2].patch = <<>>
  /\ canon1.canonicalText =
       <<FileMarker("a.ts"), FileMarker("b.ts"), <<"+", "a">>>>

-----------------------------------------------------------------------------
(* The similarity values of a pair (apps/worker processIngestPr, packages/core
   minhash and scoring) *)

(* What the analysis of a PR head works with, after classification and
   extraction: the PRODUCTION paths, the added and removed production lines,
   the token shingles of those lines, the exported, declared and imported
   names, and the test-intent and doc-structure tokens. *)
Null == "null"

\* A null canonical_diff_hash, of the shape of a hash.
NullHash == <<"null", <<>>>>

\* The hash taken of the canonical text whether or not it has a line.
canonicalDiffHashOf_ofEmptyToo(sig) == sha256Hex(<<sig.paths, sig.lines>>)

\* canonicalDiffHash: null unless there is at least one production patch line.
canonicalDiffHashOf(sig) ==
  IF sig.lines = {} THEN NullHash ELSE sha256Hex(<<sig.paths, sig.lines>>)

\* signature.fill(UINT32_MAX): the value no hash of a shingle exceeds.  The
\* hashes of the model are two-digit numbers, and the fill value is scaled to
\* them.
SignatureFill == 99

\* computeMinhash's numHashes and lshBucketIds' bandSize.
NumHashes == 2
BandSize == 1

\* mix32(fnv1a32(shingle) ^ seeds[i]) for the shingles of the model.
HashedValue(shingle, i) ==
  CASE shingle = "s1" -> <<11, 22>>[i]
    [] shingle = "s2" -> <<21, 12>>[i]

MinOfSet(S) == CHOOSE x \in S : \A y \in S : x <= y

computeMinhash(shingles) ==
  [i \in 1 .. NumHashes |->
     IF shingles = {} THEN SignatureFill
     ELSE MinOfSet({SignatureFill} \cup { HashedValue(sh, i) : sh \in shingles })]

\* matches / size as a similarity value; the shingle sets of the model give
\* signatures that agree everywhere or nowhere, so the division is exact.
minhashSimilarity(a, b) ==
  LET size == MinOf(Len(a), Len(b))
      matches == Cardinality({ i \in 1 .. size : a[i] = b[i] })
  IN IF size = 0 THEN 0 ELSE (Den * matches) \div size

\* intersection / union as a similarity value; the sets of the model have at
\* most one element, so the division is exact.
jaccardFromArrays(a, b) ==
  IF a = {} /\ b = {} THEN Den
  ELSE IF a = {} \/ b = {} THEN 0
  ELSE (Den * Cardinality(a \cap b)) \div Cardinality(a \cup b)

overlap(top, other) == top \cap other

(* What an analysis stores of a head and a later analysis reads back of it as a
   candidate: the PRODUCTION, TESTS and DOCS channel signatures
   (getProductionSignature) and the PRODUCTION paths (getPathsForPrHead). *)
StoredSignature(sig) ==
  [canonicalDiffHash |-> canonicalDiffHashOf(sig),
   minhash |-> computeMinhash(sig.shingles),
   exportsJson |-> sig.exports, symbolsJson |-> sig.symbols,
   importsJson |-> sig.imports,
   testIntentTokens |-> sig.tests, docsTokens |-> sig.docs,
   paths |-> sig.paths]

\* The scores object of the scoring loop.
PairScoresOf(t, c) ==
  [prodDiffExact |->
     IF /\ canonicalDiffHashOf(t) # NullHash
        /\ c.canonicalDiffHash # NullHash
        /\ canonicalDiffHashOf(t) = c.canonicalDiffHash
     THEN 1 ELSE 0,
   prodMinhash |->
     IF t.shingles # {}
     THEN minhashSimilarity(computeMinhash(t.shingles), c.minhash) ELSE 0,
   prodFiles |-> jaccardFromArrays(t.paths, c.paths),
   prodExports |-> jaccardFromArrays(t.exports, c.exportsJson),
   prodSymbols |-> jaccardFromArrays(t.symbols, c.symbolsJson),
   prodImports |-> jaccardFromArrays(t.imports, c.importsJson),
   testsIntent |-> jaccardFromArrays(t.tests, c.testIntentTokens),
   docsStruct |-> jaccardFromArrays(t.docs, c.docsTokens)]

-----------------------------------------------------------------------------
(* Specification of the scoring of one pair: the signals of a target and of a
   candidate are drawn and one pass of the scoring loop is made. *)

\* Patch lines and the shingles they give: fewer than five tokens give none.
LinesAndShingles ==
  { <<{}, {}>>, <<{"l0"}, {}>>, <<{"l1"}, {"s1"}>>, <<{"l2"}, {"s2"}>> }

TargetSignals ==
  { [paths |-> {"a.ts"}, lines |-> ls[1], shingles |-> ls[2],
     exports |-> ex, symbols |-> sy, imports |-> im, tests |-> te, docs |-> {}] :
      ls \in LinesAndShingles, ex \in {{}, {"x"}}, sy \in {{}, {"x"}},
      im \in {{}, {"m"}}, te \in {{}, {"t"}} }

CandidateSignals ==
  { [paths |-> pa, lines |-> ls[1], shingles |-> ls[2],
     exports |-> ex, symbols |-> sy, imports |-> im, tests |-> te, docs |-> dc] :
      pa \in {{"a.ts"}, {"b.ts"}}, ls \in LinesAndShingles,
      ex \in {{}, {"x"}, {"y"}}, sy \in {{}, {"y"}}, im \in {{}, {"m"}},
      te \in {{}, {"t"}, {"u"}}, dc \in {{}, {"d"}} }

\* Weights of the five production signals, in halves when Den = 2.
PairProdWeights == { <<1, 0, 0, 1, 0>>, <<1, 0, 0, 0, 1>> }

PairConfigs == { ThresholdsOf(wp, 1, 1, 1, 1, 1, 0) : wp \in PairProdWeights }

InitPair ==
  /\ mode = "pair"
  /\ tgt \in TargetSignals
  /\ cand \in CandidateSignals
  /\ thr \in PairConfigs
  /\ scores = NoScores
  /\ scored = NoResult
  /\ DiffIdle /\ PipeIdle /\ RestIdle

ScorePair ==
  /\ mode = "pair"
  /\ scored = NoResult
  /\ scores' = PairScoresOf(tgt, StoredSignature(cand))
  /\ scored' = scoreCandidate(scores', thr)
  /\ UNCHANGED <<mode, thr, diffVars, pairVars, pipeVars, restVars>>

NextPair == ScorePair

SpecPair == InitPair /\ [][NextPair]_vars

-----------------------------------------------------------------------------
(* Claims about the scoring of a pair *)

NoSharedProduction ==
  /\ tgt.paths \cap cand.paths = {}
  /\ (tgt.exports \cup tgt.symbols \cup tgt.imports)
       \cap (cand.exports \cup cand.symbols \cup cand.imports) = {}
  /\ tgt.shingles \cap cand.shingles = {}
  /\ tgt.lines \cap cand.lines = {}

SameTests == tgt.tests # {} /\ tgt.tests = cand.tests

\* C2: a pair that shares no production file, no production symbol and no
\* production line but has the same non-empty test-intent tokens has a
\* production score within the COMPETING_IMPLEMENTATION ceiling, is
\* COMPETING_IMPLEMENTATION when testsIntent reaches its threshold, and is
\* never SAME_CHANGE or SAME_FEATURE.
C2_DisjointProductionIsCompeting ==
  (scored # NoResult /\ NoSharedProduction /\ SameTests) =>
    /\ scored.prodScore <= thr.ci_prod_max * Den
    /\ scored.category \notin {"SAME_CHANGE", "SAME_FEATURE"}
    /\ (scores.testsIntent >= thr.ci_tests
          => scored.category = "COMPETING_IMPLEMENTATION")

NoTestsOrDocs ==
  /\ tgt.tests = {} /\ cand.tests = {}
  /\ tgt.docs = {} /\ cand.docs = {}

\* C29: a pair in which neither side has a test-intent token or a
\* doc-structure token, and whose production MinHash similarity is below the
\* supporting-signal minimum, is never SAME_FEATURE: tests and docs that are
\* absent on both sides corroborate nothing.
C29_AbsentTestsAndDocsDoNotSupport ==
  (/\ scored # NoResult /\ NoTestsOrDocs
   /\ scores.prodMinhash < thr.sf_support)
  => scored.category # "SAME_FEATURE"

-----------------------------------------------------------------------------
(* The ingest worker (apps/worker/src/index.ts) over the storage
   (packages/storage) and the Redis LSH index: data *)

PrIds == {1, 2}
HeadShas == {"h1", "h2"}
JobIds == PrIds \X HeadShas      \* buildIngestPrJobId: one id per (pr, head)

\* runtime.workerConcurrency, thresholds.candidates.*
workerConcurrency == 2
max_candidates_from_lsh == 2
max_candidates_final == 2

\* The number of jobs the worker takes in a behaviour, and how many of them
\* fail.
MaxJobs == 2
MaxFailures == 1

(* What fetchPullRequestData returns of a head, after classifyFiles and the
   extractors.  The first head of either PR is the same production change.
   The second head of PR 1 is one production file whose patch GitHub left
   out; the second head of PR 2 is its first head rebased, the same
   production change under a new SHA, with the patch of its test file left
   out, so that extractTestIntent passes the file over. *)
SignalsOfKind(kind) ==
  CASE kind = "change" ->
         [paths |-> {"a.ts"}, lines |-> {"l1"}, shingles |-> {"s1"},
          exports |-> {"x"}, symbols |-> {}, imports |-> {},
          tests |-> {"t"}, docs |-> {}]
    [] kind = "nopatch" -> [NoSignals EXCEPT !.paths = {"a.ts"}, !.docs = {"d"}]
    [] kind = "testnopatch" ->
         [paths |-> {"a.ts"}, lines |-> {"l1"}, shingles |-> {"s1"},
          exports |-> {"x"}, symbols |-> {}, imports |-> {},
          tests |-> {}, docs |-> {}]

KindOf(prId, headSha) ==
  IF headSha = "h1" THEN "change"
  ELSE IF prId = 1 THEN "nopatch" ELSE "testnopatch"

ContentOf(prId, headSha) == SignalsOfKind(KindOf(prId, headSha))

\* productionFiles.some((file) => !file.patch)
HasMissingPatch(prId, headSha) == KindOf(prId, headSha) = "nopatch"

NoRow ==
  [state |-> "NONE", headSha |-> Null, lastAnalyzedHeadSha |-> Null,
   analysisStatus |-> "NONE"]

NoJob ==
  [state |-> "none", pc |-> "none", headSha |-> Null, runId |-> 0, candidates |-> <<>>, scoredList |-> <<>>, lookups |-> {}]

\* The thresholds the worker loaded.
PipelineThresholds == ThresholdsOf(<<1, 0, 0, 1, 0>>, 1, 1, 1, 1, 1, 0)

\* One band per BandSize positions of the signature; hashBand is taken to be
\* collision-free, so a bucket id is the band with its values.
lshBucketIds(signature) ==
  { <<band, SubSeq(signature, (band - 1) * BandSize + 1, band * BandSize)>> :
      band \in 1 .. (Len(signature) \div BandSize) }

\* bucketIds of the analysis: none for an empty shingle set.
BucketIdsOf(sig) ==
  IF sig.shingles # {} THEN lshBucketIds(computeMinhash(sig.shingles)) ELSE {}

-----------------------------------------------------------------------------
(* The queries of the candidate generator *)

\* The join and filter the four queries share: another PR, OPEN, at its
\* last_analyzed_head_sha.
IsCurrentOpenHead(prId, headSha, excludePrId) ==
  /\ prId # excludePrId
  /\ pull_requests[prId].state = "OPEN"
  /\ pull_requests[prId].lastAnalyzedHeadSha # Null
  /\ pull_requests[prId].lastAnalyzedHeadSha = headSha

findCandidatesByCanonicalDiffHash(canonicalDiffHash, excludePrId) ==
  { ref \in sigRows :
      /\ canonicalDiffHashOf(ContentOf(ref[1], ref[2])) = canonicalDiffHash
      /\ IsCurrentOpenHead(ref[1], ref[2], excludePrId) }

findCandidatesByPaths(productionPaths, excludePrId) ==
  IF productionPaths = {} THEN {}
  ELSE { ref \in pathRows :
           /\ ContentOf(ref[1], ref[2]).paths \cap productionPaths # {}
           /\ IsCurrentOpenHead(ref[1], ref[2], excludePrId) }

SymbolSeedOf(sig) == sig.exports \cup sig.symbols \cup sig.imports

findCandidatesBySymbols(symbolSeed, excludePrId) ==
  IF symbolSeed = {} THEN {}
  ELSE { ref \in pathRows :
           /\ SymbolSeedOf(ContentOf(ref[1], ref[2])) \cap symbolSeed # {}
           /\ IsCurrentOpenHead(ref[1], ref[2], excludePrId) }

\* The members of the buckets, reduced to their PR ids.
LshMemberPrIds(bucketIds) == { e[2][1] : e \in { x \in lsh : x[1] \in bucketIds } }

getCurrentHeadsForPrIds(prIds, excludePrId) ==
  { <<prId, pull_requests[prId].lastAnalyzedHeadSha>> :
      prId \in { q \in prIds :
                   /\ q # excludePrId
                   /\ pull_requests[q].state = "OPEN"
                   /\ pull_requests[q].lastAnalyzedHeadSha # Null } }

\* A query without its LIMIT: every matching row, in some order.
LimitRows_unlimited(rows, n) ==
  { q \in SeqsUpTo(rows, Cardinality(rows)) :
      /\ Len(q) = Cardinality(rows)
      /\ \A i, j \in 1 .. Len(q) : i # j => q[i] # q[j] }

\* LIMIT n without ORDER BY: any n of the rows, in any order.
LimitRows(rows, n) ==
  { q \in SeqsUpTo(rows, MinOf(n, Cardinality(rows))) :
      /\ Len(q) = MinOf(n, Cardinality(rows))
      /\ \A i, j \in 1 .. Len(q) : i # j => q[i] # q[j] }

\* candidateByKey.set for each row: a Map keeps the place of a key it has.
RECURSIVE SetAll(_, _)
SetAll(candidateByKey, rows) ==
  IF rows = <<>> THEN candidateByKey
  ELSE SetAll(IF \E i \in 1 .. Len(candidateByKey) : candidateByKey[i] = Head(rows)
              THEN candidateByKey
              ELSE Append(candidateByKey, Head(rows)),
              Tail(rows))

-----------------------------------------------------------------------------
(* The scoring loop and the edges it leads to *)

\* The evidence object without the values the category was decided on.
EvidenceOf_withoutValues(t, c, similarityValues) ==
  [overlappingProductionPaths |-> overlap(t.paths, c.paths),
   overlappingExports |-> overlap(t.exports, c.exportsJson),
   overlappingSymbols |-> overlap(t.symbols, c.symbolsJson),
   overlappingImports |-> overlap(t.imports, c.importsJson),
   testsIntentOverlap |-> overlap(t.tests, c.testIntentTokens),
   docsOverlap |-> overlap(t.docs, c.docsTokens),
   similarityValues |-> NoScores]

\* The evidence object pushed with a scored candidate.  The slice(0, n) caps
\* are above the sizes of the model's sets.
EvidenceOf(t, c, similarityValues) ==
  [overlappingProductionPaths |-> overlap(t.paths, c.paths),
   overlappingExports |-> overlap(t.exports, c.exportsJson),
   overlappingSymbols |-> overlap(t.symbols, c.symbolsJson),
   overlappingImports |-> overlap(t.imports, c.importsJson),
   testsIntentOverlap |-> overlap(t.tests, c.testIntentTokens),
   docsOverlap |-> overlap(t.docs, c.docsTokens),
   similarityValues |-> similarityValues]

\* getProductionSignature and getPathsForPrHead of a candidate whose
\* signature rows exist.
CandidateRowsOf(ref) ==
  [StoredSignature(ContentOf(ref[1], ref[2])) EXCEPT
     !.paths = IF ref \in pathRows THEN ContentOf(ref[1], ref[2]).paths ELSE {}]

ScoredItem(t, ref) ==
  LET c == CandidateRowsOf(ref)
      sc == PairScoresOf(t, c)
      categorization == scoreCandidate(sc, PipelineThresholds)
  IN [prId |-> ref[1], headSha |-> ref[2],
      category |-> categorization.category,
      finalScore |-> categorization.finalScore,
      scores |-> sc, evidence |-> EvidenceOf(t, c, sc)]

\* The loop over the candidates: one without signature rows is passed over,
\* and so is one categorised NOT_RELATED.
RECURSIVE ScoreAll(_, _)
ScoreAll(t, candidates) ==
  IF candidates = <<>> THEN <<>>
  ELSE LET ref == Head(candidates)
           rest == ScoreAll(t, Tail(candidates))
       IN IF ref \notin sigRows THEN rest
          ELSE IF ScoredItem(t, ref).category = "NOT_RELATED" THEN rest
          ELSE <<ScoredItem(t, ref)>> \o rest

categoryRank(category) ==
  CASE category = "SAME_CHANGE" -> 0
    [] category = "SAME_FEATURE" -> 1
    [] category = "COMPETING_IMPLEMENTATION" -> 2
    [] category = "RELATED" -> 3

\* The comparator of scored.sort: a sorts before b.
SortsBefore(a, b) ==
  \/ categoryRank(a.category) < categoryRank(b.category)
  \/ /\ categoryRank(a.category) = categoryRank(b.category)
     /\ \/ a.finalScore > b.finalScore
        \/ a.finalScore = b.finalScore /\ a.prId < b.prId

RECURSIVE SortScored(_)
SortScored(items) ==
  IF items = <<>> THEN <<>>
  ELSE LET i == CHOOSE i \in 1 .. Len(items) :
                  \A j \in 1 .. Len(items) :
                    IF j < i THEN SortsBefore(items[i], items[j])
                    ELSE ~SortsBefore(items[j], items[i])
       IN <<items[i]>> \o SortScored(RemoveAt(items, i))

\* limited, as the rows handed to insertCandidateEdges.
EdgeRowsOf(analysisRunId, prId, headSha, items) ==
  [index \in 1 .. MinOf(Len(items), max_candidates_final) |->
     [analysisRunId |-> analysisRunId,
      prIdA |-> prId, headShaA |-> headSha,
      prIdB |-> items[index].prId, headShaB |-> items[index].headSha,
      rank |-> index,
      category |-> items[index].category,
      finalScore |-> items[index].finalScore,
      scoresJson |-> items[index].scores,
      evidenceJson |-> items[index].evidence]]

\* The conflict target without analysis_run_id.
UpsertEdge_keyWithoutRun(table, edge) ==
  { e \in table : ~(e.prIdB = edge.prIdB /\ e.headShaB = edge.headShaB) }
    \cup {edge}

\* INSERT ... ON CONFLICT (analysis_run_id, pr_id_b, head_sha_b) DO UPDATE
UpsertEdge(table, edge) ==
  { e \in table : ~(/\ e.analysisRunId = edge.analysisRunId
                    /\ e.prIdB = edge.prIdB /\ e.headShaB = edge.headShaB) }
    \cup {edge}

-----------------------------------------------------------------------------
(* Specification of the ingest pipeline: two PRs of one repository, public
   scans that queue ingest jobs, and the worker that runs them *)

(* The state after the first public scan has queued PR 2 at its first head
   and the worker has analysed it, against an index that was empty: the PR
   row, its path, symbol and signature rows, its run, its LSH memberships and
   its completed job. *)
Init ==
  /\ mode = "pipeline"
  /\ gh = [p \in PrIds |-> [headSha |-> "h1", state |-> "OPEN"]]
  /\ pull_requests = [p \in PrIds |->
       IF p = 2 THEN [state |-> "OPEN", headSha |-> "h1",
                      lastAnalyzedHeadSha |-> "h1", analysisStatus |-> "DONE"]
       ELSE NoRow]
  /\ jobs = [id \in JobIds |->
       IF id = <<2, "h1">>
       THEN [NoJob EXCEPT !.state = "completed", !.runId = 1]
       ELSE NoJob]
  /\ pathRows = {<<2, "h1">>} /\ sigRows = {<<2, "h1">>}
  /\ runs = <<[prId |-> 2, headSha |-> "h1", status |-> "DONE",
               degradedReasons |-> {}]>>
  /\ edges = {}
  /\ lsh = { <<bucketId, <<2, "h1">>>> : bucketId \in BucketIdsOf(ContentOf(2, "h1")) }
  /\ started = 0 /\ failures = 0
  /\ ScoreIdle /\ DiffIdle /\ PairIdle /\ RestIdle

idleVars == <<mode, scoreVars, diffVars, pairVars, restVars>>

(* GitHub is read when a scan lists the open PRs and when a job fetches its
   PR, so what happens there once the last job of the behaviour has been
   taken is not looked at. *)
Watched == started < MaxJobs

\* The author pushes a second head to the PR.
PushHead(prId) ==
  /\ Watched
  /\ gh[prId].state = "OPEN" /\ gh[prId].headSha = "h1"
  /\ gh' = [gh EXCEPT ![prId].headSha = "h2"]
  /\ UNCHANGED <<pull_requests, pathRows, sigRows, runs, edges, lsh, jobs, started, failures, idleVars>>

\* PR 2 is closed without having been merged.
ClosePr ==
  /\ Watched
  /\ gh[2].state = "OPEN"
  /\ gh' = [gh EXCEPT ![2].state = "CLOSED"]
  /\ UNCHANGED <<pull_requests, pathRows, sigRows, runs, edges, lsh, jobs, started, failures, idleVars>>

(* processPublicPrScan: listOpenPullRequests, then for every open PR the
   ingest job of its head is added, unless a job of that id exists and has
   not failed; one that failed is removed and added again. *)
ScanQueues(id) ==
  /\ gh[id[1]].state = "OPEN" /\ gh[id[1]].headSha = id[2]
  /\ jobs[id].state \in {"none", "failed"}

PublicScan ==
  /\ Watched
  /\ \E id \in JobIds : ScanQueues(id)
  /\ jobs' = [id \in JobIds |->
       IF ScanQueues(id) THEN [NoJob EXCEPT !.state = "waiting"] ELSE jobs[id]]
  /\ UNCHANGED <<gh, pull_requests, pathRows, sigRows, runs, edges, lsh, started, failures, idleVars>>

ActiveJobs == { id \in JobIds : jobs[id].state = "active" }

At(id, pc) == jobs[id].state = "active" /\ jobs[id].pc = pc

\* The signals of the head the job fetched.
TargetOf(id) == ContentOf(id[1], jobs[id].headSha)

\* mapPrState of a PR that has not been merged
mapPrState(state) == IF state = "OPEN" THEN "OPEN" ELSE "CLOSED"

(* A worker slot takes the job: fetchPullRequestForIngest reads the PR as
   GitHub has it now, upsertPullRequest writes its row, and
   updatePullRequestAnalysisStatus sets it RUNNING. *)
StartJob(id) ==
  /\ jobs[id].state = "waiting"
  /\ Cardinality(ActiveJobs) < workerConcurrency
  /\ started < MaxJobs
  /\ started' = started + 1
  /\ jobs' = [jobs EXCEPT ![id] =
       [NoJob EXCEPT !.state = "active", !.pc = "files",
                     !.headSha = gh[id[1]].headSha]]
  /\ pull_requests' = [pull_requests EXCEPT ![id[1]] =
       [state |-> mapPrState(gh[id[1]].state), headSha |-> gh[id[1]].headSha,
        lastAnalyzedHeadSha |-> pull_requests[id[1]].lastAnalyzedHeadSha,
        analysisStatus |-> "RUNNING"]]
  /\ UNCHANGED <<gh, pathRows, sigRows, runs, edges, lsh, failures, idleVars>>

\* replacePrFiles, replaceChangedPaths, replaceSymbols
ReplaceFilesPathsSymbols(id) ==
  /\ At(id, "files")
  /\ pathRows' = pathRows \cup {<<id[1], jobs[id].headSha>>}
  /\ jobs' = [jobs EXCEPT ![id].pc = "signatures"]
  /\ UNCHANGED <<gh, pull_requests, sigRows, runs, edges, lsh, started, failures, idleVars>>

\* upsertChannelSignature for the four channels
UpsertChannelSignatures(id) ==
  /\ At(id, "signatures")
  /\ sigRows' = sigRows \cup {<<id[1], jobs[id].headSha>>}
  /\ jobs' = [jobs EXCEPT ![id].pc = "run"]
  /\ UNCHANGED <<gh, pull_requests, pathRows, runs, edges, lsh, started, failures, idleVars>>

\* insertAnalysisRun under a fresh analysisRunId
InsertAnalysisRun(id) ==
  /\ At(id, "run")
  /\ runs' = Append(runs, [prId |-> id[1], headSha |-> jobs[id].headSha,
                           status |-> "RUNNING", degradedReasons |-> {}])
  /\ jobs' = [jobs EXCEPT ![id].pc = "exact", ![id].runId = Len(runs) + 1]
  /\ UNCHANGED <<gh, pull_requests, pathRows, sigRows, edges, lsh, started, failures, idleVars>>

\* One retrieval step: the rows are added to candidateByKey and the strategy
\* is noted as run.
Retrieved(id, strategy, rowSet, nextPc) ==
  \E rows \in LimitRows(rowSet, max_candidates_from_lsh) :
    jobs' = [jobs EXCEPT ![id].pc = nextPc,
                         ![id].candidates = SetAll(jobs[id].candidates, rows),
                         ![id].lookups = jobs[id].lookups \cup {strategy}]

ExactHashLookup(id) ==
  /\ At(id, "exact")
  /\ IF canonicalDiffHashOf(TargetOf(id)) # NullHash
     THEN Retrieved(id, "exact",
            findCandidatesByCanonicalDiffHash(canonicalDiffHashOf(TargetOf(id)), id[1]),
            "lsh")
     ELSE jobs' = [jobs EXCEPT ![id].pc = "lsh"]
  /\ UNCHANGED <<gh, pull_requests, pathRows, sigRows, runs, edges, lsh, started, failures, idleVars>>

\* getLshCandidatePrIds, then getCurrentHeadsForPrIds
LshLookup(id) ==
  /\ At(id, "lsh")
  /\ IF BucketIdsOf(TargetOf(id)) # {}
     THEN \E prIds \in LimitRows(LshMemberPrIds(BucketIdsOf(TargetOf(id))),
                                 max_candidates_from_lsh) :
            Retrieved(id, "lsh",
              getCurrentHeadsForPrIds({ prIds[i] : i \in 1 .. Len(prIds) }, id[1]),
              "paths")
     ELSE jobs' = [jobs EXCEPT ![id].pc = "paths"]
  /\ UNCHANGED <<gh, pull_requests, pathRows, sigRows, runs, edges, lsh, started, failures, idleVars>>

PathLookup(id) ==
  /\ At(id, "paths")
  /\ IF TargetOf(id).paths # {}
     THEN Retrieved(id, "paths", findCandidatesByPaths(TargetOf(id).paths, id[1]),
                    "symbols")
     ELSE jobs' = [jobs EXCEPT ![id].pc = "symbols"]
  /\ UNCHANGED <<gh, pull_requests, pathRows, sigRows, runs, edges, lsh, started, failures, idleVars>>

SymbolLookup(id) ==
  /\ At(id, "symbols")
  /\ IF SymbolSeedOf(TargetOf(id)) # {}
     THEN Retrieved(id, "symbols",
            findCandidatesBySymbols(SymbolSeedOf(TargetOf(id)), id[1]), "score")
     ELSE jobs' = [jobs EXCEPT ![id].pc = "score"]
  /\ UNCHANGED <<gh, pull_requests, pathRows, sigRows, runs, edges, lsh, started, failures, idleVars>>

\* The scoring loop over the first max_candidates_from_lsh candidates, the
\* sort, and the cut to max_candidates_final, each value taken once.
ScoreCandidates(id) ==
  /\ At(id, "score")
  /\ \E candidates \in {SubSeq(jobs[id].candidates, 1,
                           MinOf(Len(jobs[id].candidates), max_candidates_from_lsh))} :
     \E scoredItems \in {ScoreAll(TargetOf(id), candidates)} :
     \E sorted \in {SortScored(scoredItems)} :
     \E limited \in {EdgeRowsOf(jobs[id].runId, id[1], jobs[id].headSha, sorted)} :
       jobs' = [jobs EXCEPT ![id].scoredList = limited,
                            ![id].pc = IF limited = <<>> THEN "lshInsert" ELSE "edges"]
  /\ UNCHANGED <<gh, pull_requests, pathRows, sigRows, runs, edges, lsh, started, failures, idleVars>>

\* insertCandidateEdges: one INSERT per edge, each its own statement.
InsertCandidateEdge(id) ==
  /\ At(id, "edges")
  /\ edges' = UpsertEdge(edges, Head(jobs[id].scoredList))
  /\ jobs' = [jobs EXCEPT ![id].scoredList = Tail(jobs[id].scoredList),
                          ![id].pc = IF Tail(jobs[id].scoredList) = <<>>
                                     THEN "lshInsert" ELSE "edges"]
  /\ UNCHANGED <<gh, pull_requests, pathRows, sigRows, runs, lsh, started, failures, idleVars>>

\* insertIntoLsh: SADD of the member `${prId}:${headSha}` to every bucket.
InsertIntoLsh(id) ==
  /\ At(id, "lshInsert")
  /\ lsh' = lsh \cup { <<bucketId, <<id[1], jobs[id].headSha>>>> :
                         bucketId \in BucketIdsOf(TargetOf(id)) }
  /\ jobs' = [jobs EXCEPT ![id].pc = "finish"]
  /\ UNCHANGED <<gh, pull_requests, pathRows, sigRows, runs, edges, started, failures, idleVars>>

degradedReasonsOf(id) ==
  IF HasMissingPatch(id[1], jobs[id].headSha)
  THEN {"missing_production_patch_segments"} ELSE {}

finalStatusOf(id) == IF degradedReasonsOf(id) # {} THEN "DEGRADED" ELSE "DONE"

FinishAnalysisRun(id) ==
  /\ At(id, "finish")
  /\ runs' = [runs EXCEPT ![jobs[id].runId].status = finalStatusOf(id),
                          ![jobs[id].runId].degradedReasons = degradedReasonsOf(id)]
  /\ jobs' = [jobs EXCEPT ![id].pc = "status"]
  /\ UNCHANGED <<gh, pull_requests, pathRows, sigRows, edges, lsh, started, failures, idleVars>>

\* updatePullRequestAnalysisStatus with lastAnalyzedHeadSha; the job has come
\* from a public scan, so no check run is published, and it completes.
UpdateAnalysisStatus(id) ==
  /\ At(id, "status")
  /\ pull_requests' = [pull_requests EXCEPT
       ![id[1]].analysisStatus = finalStatusOf(id),
       ![id[1]].lastAnalyzedHeadSha = jobs[id].headSha]
  /\ jobs' = [jobs EXCEPT ![id] =
       [NoJob EXCEPT !.state = "completed", !.runId = jobs[id].runId]]
  /\ UNCHANGED <<gh, pathRows, sigRows, runs, edges, lsh, started, failures, idleVars>>

(* The store or the index is unavailable at the call the job is about to
   make: the call throws, processIngestPr rejects, and BullMQ marks the job
   failed (it was added without `attempts`, so it is not run again).  The
   "failed" handler then updates the PR row, if the store answers by then. *)
FailJob(id, handlerWrites) ==
  /\ jobs[id].state = "active"
  /\ failures < MaxFailures
  /\ failures' = failures + 1
  /\ jobs' = [jobs EXCEPT ![id] =
       [NoJob EXCEPT !.state = "failed", !.runId = jobs[id].runId]]
  /\ pull_requests' =
       IF handlerWrites /\ pull_requests[id[1]] # NoRow
       THEN [pull_requests EXCEPT ![id[1]].analysisStatus = "FAILED",
                                  ![id[1]].lastAnalyzedHeadSha = id[2]]
       ELSE pull_requests
  /\ UNCHANGED <<gh, pathRows, sigRows, runs, edges, lsh, started, idleVars>>

Next ==
  \/ \E prId \in PrIds : PushHead(prId)
  \/ ClosePr
  \/ PublicScan
  \/ \E id \in JobIds : StartJob(id)
  \/ \E id \in JobIds : ReplaceFilesPathsSymbols(id)
  \/ \E id \in JobIds : UpsertChannelSignatures(id)
  \/ \E id \in JobIds : InsertAnalysisRun(id)
  \/ \E id \in JobIds : ExactHashLookup(id)
  \/ \E id \in JobIds : LshLookup(id)
  \/ \E id \in JobIds : PathLookup(id)
  \/ \E id \in JobIds : SymbolLookup(id)
  \/ \E id \in JobIds : ScoreCandidates(id)
  \/ \E id \in JobIds : InsertCandidateEdge(id)
  \/ \E id \in JobIds : InsertIntoLsh(id)
  \/ \E id \in JobIds : FinishAnalysisRun(id)
  \/ \E id \in JobIds : UpdateAnalysisStatus(id)
  \/ \E id \in JobIds, handlerWrites \in BOOLEAN : FailJob(id, handlerWrites)

Spec == Init /\ [][Next]_vars

-----------------------------------------------------------------------------
(* Claims about the ingest pipeline *)

SimilarityNames ==
  {"prodDiffExact", "prodMinhash", "prodFiles", "prodExports", "prodSymbols",
   "prodImports", "testsIntent", "docsStruct"}

\* The evidence of an edge is that of its two heads, and the category of the
\* edge is the one its similarity values give.
HasEvidence(e) ==
  LET a == ContentOf(e.prIdA, e.headShaA)
      b == ContentOf(e.prIdB, e.headShaB)
      ev == e.evidenceJson
  IN /\ ev.overlappingProductionPaths = a.paths \cap b.paths
     /\ ev.overlappingExports = a.exports \cap b.exports
     /\ ev.overlappingSymbols = a.symbols \cap b.symbols
     /\ ev.overlappingImports = a.imports \cap b.imports
     /\ ev.testsIntentOverlap = a.tests \cap b.tests
     /\ ev.docsOverlap = a.docs \cap b.docs
     /\ DOMAIN ev.similarityValues = SimilarityNames
     /\ ev.similarityValues = e.scoresJson
     /\ scoreCandidate(ev.similarityValues, PipelineThresholds).category = e.category

(* C4: every candidate edge an analysis run has persisted carries an evidence
   bundle: the six overlap lists of its two heads and the eight similarity
   values, which are the ones its category was decided on. *)
C4_EveryEdgeCarriesItsEvidence == \A e \in edges : HasEvidence(e)

\* An edge is stored whose heads overlap in a production path and whose
\* category is not the one the all-zero values would give.
C4_Witness ==
  \E e \in edges :
    /\ e.evidenceJson.overlappingProductionPaths # {}
    /\ e.evidenceJson.similarityValues # NoScores
    /\ e.category = "SAME_CHANGE"

\* The candidates a step adds to the candidateByKey of a job.
CandidatesOf(job) == { job.candidates[i] : i \in 1 .. Len(job.candidates) }

\* An analysis run of this head has finished.
HasFinishedRun(ref) ==
  \E i \in 1 .. Len(runs) :
    /\ runs[i].prId = ref[1] /\ runs[i].headSha = ref[2]
    /\ runs[i].status \in {"DONE", "DEGRADED"}

(* C5: whichever retrieval step adds a candidate to an analysis, the
   candidate is another PR than the one analysed, its row is OPEN, and its
   head is one an analysis of that PR has finished on, as its most recently
   analysed head must be. *)
C5_CandidatesAreOtherOpenPrsAtAnalysedHead ==
  [][\A id \in JobIds :
       \A ref \in CandidatesOf(jobs'[id]) \ CandidatesOf(jobs[id]) :
         /\ ref[1] # id[1]
         /\ pull_requests[ref[1]].state = "OPEN"
         /\ HasFinishedRun(ref)]_vars

\* The production diff of the head has no added or removed line.
EmptyProductionDiff(prId, headSha) == ContentOf(prId, headSha).lines = {}

(* C6: an analysis of a head whose production diff is empty runs neither the
   exact-hash lookup nor the LSH bucket lookup, and no edge from or to such a
   head is scored as an exact match of the diff. *)
C6_EmptyDiffSkipsExactAndLsh ==
  /\ \A id \in ActiveJobs :
       EmptyProductionDiff(id[1], jobs[id].headSha) =>
         jobs[id].lookups \cap {"exact", "lsh"} = {}
  /\ \A e \in edges :
       (EmptyProductionDiff(e.prIdA, e.headShaA)
          \/ EmptyProductionDiff(e.prIdB, e.headShaB)) =>
         e.scoresJson.prodDiffExact = 0

\* An analysis of a head with an empty production diff has gone through its
\* retrieval, with the path lookup run, and has stored an edge.
C6_Witness ==
  \E id \in ActiveJobs :
    /\ EmptyProductionDiff(id[1], jobs[id].headSha)
    /\ jobs[id].pc = "finish"
    /\ "paths" \in jobs[id].lookups
    /\ \E e \in edges : e.analysisRunId = jobs[id].runId

(* C9: the edge rows of a run are never changed or removed by a later step:
   every row of candidate_edges stays as it is, whatever run is added for the
   same head. *)
C9_EdgesOfEarlierRunsStay == [][edges \subseteq edges']_vars

\* Two runs of the same head have each stored an edge to the same candidate.
C9_Witness ==
  \E e1, e2 \in edges :
    /\ e1.analysisRunId # e2.analysisRunId
    /\ e1.prIdA = e2.prIdA /\ e1.headShaA = e2.headShaA
    /\ e1.prIdB = e2.prIdB /\ e1.headShaB = e2.headShaB

(* C10: a job that failed after its analysis run was inserted has left that
   run in the FAILED state. *)
C10_FailedJobLeavesRunFailed ==
  \A id \in JobIds :
    (jobs[id].state = "failed" /\ jobs[id].runId # 0) =>
      runs[jobs[id].runId].status = "FAILED"

\* A file of the head came without its patch, so that the extraction of its
\* channel passed it over.
ExtractionSkipped(prId, headSha) ==
  KindOf(prId, headSha) \in {"nopatch", "testnopatch"}

(* C11: an analysis run that has finished on a head one of whose files had
   no patch, so that extraction passed the file over, has a reason recorded
   in degraded_reasons. *)
C11_SkippedExtractionIsRecorded ==
  \A i \in 1 .. Len(runs) :
    (runs[i].status \in {"DONE", "DEGRADED"}
       /\ ExtractionSkipped(runs[i].prId, runs[i].headSha)) =>
      runs[i].degradedReasons # {}

(* C25: last_analyzed_head_sha of a PR row names only a head on which an
   analysis run of that PR has finished DONE or DEGRADED; a job that fails
   leaves it as it was. *)
C25_LastAnalysedHeadHasFinishedRun ==
  \A p \in PrIds :
    (pull_requests[p] # NoRow /\ pull_requests[p].lastAnalyzedHeadSha # Null) =>
      HasFinishedRun(<<p, pull_requests[p].lastAnalyzedHeadSha>>)

\* getLatestAnalysisRunId: the run of the head that started last, whatever
\* its status; 0 when the head has no run.  Runs are kept in the order they
\* started.
getLatestAnalysisRunId(prId, headSha) ==
  LET ofHead == { i \in 1 .. Len(runs) :
                    runs[i].prId = prId /\ runs[i].headSha = headSha }
  IN IF ofHead = {} THEN 0 ELSE CHOOSE i \in ofHead : \A j \in ofHead : j <= i

(* C27: at whatever moment of an analysis a reader resolves the latest run of
   a PR head and lists its candidates, the run it gets has finished, so that
   the edges listed are all the edges of a finished run and never those of a
   run still RUNNING. *)
C27_ReaderGetsFinishedRun ==
  \A prId \in PrIds, headSha \in HeadShas :
    LET analysisRunId == getLatestAnalysisRunId(prId, headSha)
    IN analysisRunId # 0 => runs[analysisRunId].status # "RUNNING"

-----------------------------------------------------------------------------
(* Specification of a first scan: two PRs of one repository are open at
   their first heads, which hold the same production change, and neither has
   been analysed.  A public scan queues both, and the worker's slots run the
   two jobs in whatever interleaving. *)

InitFirstScan ==
  /\ mode = "firstscan"
  /\ gh = [p \in PrIds |-> [headSha |-> "h1", state |-> "OPEN"]]
  /\ pull_requests = [p \in PrIds |-> NoRow]
  /\ jobs = [id \in JobIds |-> NoJob]
  /\ pathRows = {} /\ sigRows = {} /\ runs = <<>> /\ edges = {} /\ lsh = {}
  /\ started = 0 /\ failures = 0
  /\ ScoreIdle /\ DiffIdle /\ PairIdle /\ RestIdle

NextFirstScan ==
  \/ PublicScan
  \/ \E id \in JobIds : StartJob(id)
  \/ \E id \in JobIds : ReplaceFilesPathsSymbols(id)
  \/ \E id \in JobIds : UpsertChannelSignatures(id)
  \/ \E id \in JobIds : InsertAnalysisRun(id)
  \/ \E id \in JobIds : ExactHashLookup(id)
  \/ \E id \in JobIds : LshLookup(id)
  \/ \E id \in JobIds : PathLookup(id)
  \/ \E id \in JobIds : SymbolLookup(id)
  \/ \E id \in JobIds : ScoreCandidates(id)
  \/ \E id \in JobIds : InsertCandidateEdge(id)
  \/ \E id \in JobIds : InsertIntoLsh(id)
  \/ \E id \in JobIds : FinishAnalysisRun(id)
  \/ \E id \in JobIds : UpdateAnalysisStatus(id)

SpecFirstScan == InitFirstScan /\ [][NextFirstScan]_vars

\* The analyses of the first heads of both PRs have completed, and both PRs
\* are open at those heads.
BothAnalysed ==
  /\ \A p \in PrIds :
       /\ jobs[<<p, "h1">>].state = "completed"
       /\ pull_requests[p].state = "OPEN" /\ pull_requests[p].headSha = "h1"
  /\ ContentOf(1, "h1").lines # {}
  /\ ContentOf(1, "h1").lines = ContentOf(2, "h1").lines
  /\ ContentOf(1, "h1").paths = ContentOf(2, "h1").paths

(* C23: once the analyses of two open PRs with the same non-empty production
   diff have both finished, in whatever interleaving they ran, the run of at
   least one of them holds an edge to the other PR. *)
C23_OneOfTwoRunsFindsTheOther ==
  BothAnalysed =>
    \E p \in PrIds : \E e \in edges :
      /\ e.analysisRunId = jobs[<<p, "h1">>].runId
      /\ e.prIdA = p /\ e.prIdB # p

-----------------------------------------------------------------------------
(* Specification of a superseded head: PR 1 has been analysed at its first
   head, whose production change went into the LSH index, and then at its
   second head, whose only production file came without a patch and so has no
   bucket.  PR 2, not analysed so far, holds the change of PR 1's first head;
   it is scanned and analysed, and its author may push its second head. *)

InitSuperseded ==
  /\ mode = "superseded"
  /\ gh = [p \in PrIds |-> [headSha |-> IF p = 1 THEN "h2" ELSE "h1", state |-> "OPEN"]]
  /\ pull_requests = [p \in PrIds |->
       IF p = 1 THEN [state |-> "OPEN", headSha |-> "h2",
                      lastAnalyzedHeadSha |-> "h2", analysisStatus |-> "DEGRADED"]
       ELSE NoRow]
  /\ jobs = [id \in JobIds |->
       IF id[1] = 1
       THEN [NoJob EXCEPT !.state = "completed", !.runId = IF id[2] = "h1" THEN 1 ELSE 2]
       ELSE NoJob]
  /\ pathRows = {<<1, "h1">>, <<1, "h2">>} /\ sigRows = {<<1, "h1">>, <<1, "h2">>}
  /\ runs = <<[prId |-> 1, headSha |-> "h1", status |-> "DONE", degradedReasons |-> {}],
              [prId |-> 1, headSha |-> "h2", status |-> "DEGRADED",
               degradedReasons |-> {"missing_production_patch_segments"}]>>
  /\ edges = {}
  /\ lsh = { <<bucketId, <<1, "h1">>>> : bucketId \in BucketIdsOf(ContentOf(1, "h1")) }
  /\ started = 0 /\ failures = 0
  /\ ScoreIdle /\ DiffIdle /\ PairIdle /\ RestIdle

NextSuperseded ==
  \/ \E prId \in PrIds : PushHead(prId)
  \/ NextFirstScan

SpecSuperseded == InitSuperseded /\ [][NextSuperseded]_vars

(* C30: every candidate that the LSH lookup of an analysis adds is a PR head
   whose own production signature has a bucket id in common with the
   target's: a membership that a superseded head of a PR left in a bucket
   does not make the PR's newer head a candidate. *)
C30_LshCandidatesShareABucket ==
  [][\A id \in JobIds :
       "lsh" \in jobs'[id].lookups \ jobs[id].lookups =>
         \A ref \in CandidatesOf(jobs'[id]) \ CandidatesOf(jobs[id]) :
           BucketIdsOf(ContentOf(ref[1], ref[2]))
             \cap BucketIdsOf(ContentOf(id[1], jobs'[id].headSha)) # {}]_vars

-----------------------------------------------------------------------------
(* Specification of the ways into the ingest queue: the webhook route, the
   public scan, and a worker of which only the end of a job is kept *)

\* X-GitHub-Delivery ids.  d1 is an event of PR 1 at its first head, d2 the
\* event of its second head.
DeliveryIds == {"d1", "d2"}

\* buildIngestPrJobId(jobPayload) of the delivery's payload
JobIdOfDelivery(d) == IF d = "d2" THEN <<1, "h2">> ELSE <<1, "h1">>

\* The requests the API serves at a time.
Requests == {1, 2}

NoRequest == [pc |-> "idle", deliveryId |-> Null]
NoScan == [pc |-> "idle", id |-> <<0, Null>>]

\* Queue.add with a jobId, as if a job of that id did not count.
AddCreates_always(queue, id) == TRUE

\* Queue.add with a jobId: a job is created unless one of that id is in the
\* queue, in whatever state.
AddCreates(queue, id) == queue[id].state = "none"

QueueAdd(queue, id) ==
  IF AddCreates(queue, id)
  THEN [queue EXCEPT ![id] = [NoJob EXCEPT !.state = "waiting"]]
  ELSE queue

InitIngress ==
  /\ mode = "ingress"
  /\ gh = [p \in PrIds |-> [headSha |-> "h1", state |-> "OPEN"]]
  /\ jobs = [id \in JobIds |-> NoJob]
  /\ pull_requests = <<>>
  /\ pathRows = {} /\ sigRows = {} /\ runs = <<>> /\ edges = {} /\ lsh = {}
  /\ started = 0 /\ failures = 0
  /\ deliveries = [d \in DeliveryIds |-> "NONE"]
  /\ requests = [r \in Requests |-> NoRequest]
  /\ scan = NoScan
  /\ created = [id \in JobIds |-> 0]
  /\ failedOf = [id \in JobIds |-> 0]
  /\ addedBy = [d \in DeliveryIds |-> 0]
  /\ ScoreIdle /\ DiffIdle /\ PairIdle /\ IndexIdle /\ GenIdle /\ CfgIdle /\ CursorIdle
  /\ LateIdle

ingressRest ==
  <<mode, scoreVars, diffVars, pairVars, pull_requests, pathRows, sigRows,
    runs, edges, lsh, started, indexVars, genVars, cfgVars, cursorVars, lateVars>>

\* The author pushes the second head of PR 1.
IngressPush ==
  /\ gh[1].headSha = "h1"
  /\ gh' = [gh EXCEPT ![1].headSha = "h2"]
  /\ UNCHANGED <<jobs, failures, webVars, ingressRest>>

(* POST /webhooks/github up to recordWebhookDeliveryReceived, served as the
   first free request: the row is
   inserted with status RECEIVED unless the delivery id has one.  A delivery
   whose row exists and is not FAILED is answered { duplicate: true }. *)
Receive(r, d) ==
  /\ requests[r].pc = "idle"
  /\ \A q \in Requests : q < r => requests[q].pc # "idle"
  /\ JobIdOfDelivery(d)[2] = "h2" => gh[1].headSha = "h2"
  /\ IF deliveries[d] = "NONE"
     THEN /\ deliveries' = [deliveries EXCEPT ![d] = "RECEIVED"]
          /\ requests' = [requests EXCEPT ![r] = [pc |-> "enqueue", deliveryId |-> d]]
     ELSE /\ deliveries[d] = "FAILED"
          /\ requests' = [requests EXCEPT ![r] = [pc |-> "reopen", deliveryId |-> d]]
          /\ UNCHANGED deliveries
  /\ UNCHANGED <<gh, jobs, failures, scan, created, failedOf, addedBy, ingressRest>>

\* markWebhookDeliveryStatus(deliveryId, "RECEIVED") of a delivery found FAILED
Reopen(r) ==
  /\ requests[r].pc = "reopen"
  /\ deliveries' = [deliveries EXCEPT ![requests[r].deliveryId] = "RECEIVED"]
  /\ requests' = [requests EXCEPT ![r].pc = "enqueue"]
  /\ UNCHANGED <<gh, jobs, failures, scan, created, failedOf, addedBy, ingressRest>>

\* upsertInstallation, upsertRepository, then queue.addIngestPr
Enqueue(r) ==
  /\ requests[r].pc = "enqueue"
  /\ LET d == requests[r].deliveryId
         id == JobIdOfDelivery(d)
     IN /\ jobs' = QueueAdd(jobs, id)
        /\ created' = [created EXCEPT ![id] = @ + (IF AddCreates(jobs, id) THEN 1 ELSE 0)]
        /\ addedBy' = [addedBy EXCEPT ![d] = @ + (IF AddCreates(jobs, id) THEN 1 ELSE 0)]
  /\ requests' = [requests EXCEPT ![r].pc = "mark"]
  /\ UNCHANGED <<gh, failures, deliveries, scan, failedOf, ingressRest>>

\* markWebhookDeliveryStatus(deliveryId, "PROCESSED"), then { enqueued: true }
MarkProcessed(r) ==
  /\ requests[r].pc = "mark"
  /\ deliveries' = [deliveries EXCEPT ![requests[r].deliveryId] = "PROCESSED"]
  /\ requests' = [requests EXCEPT ![r] = NoRequest]
  /\ UNCHANGED <<gh, jobs, failures, scan, created, failedOf, addedBy, ingressRest>>

(* A call of the try block throws: the catch marks the delivery FAILED and
   answers 500; if that write throws too, the row stays as it is. *)
RequestFails(r, marked) ==
  /\ requests[r].pc \in {"reopen", "enqueue", "mark"}
  /\ deliveries' = IF marked
                   THEN [deliveries EXCEPT ![requests[r].deliveryId] = "FAILED"]
                   ELSE deliveries
  /\ requests' = [requests EXCEPT ![r] = NoRequest]
  /\ UNCHANGED <<gh, jobs, failures, scan, created, failedOf, addedBy, ingressRest>>

(* processPublicPrScan for PR 1, the open PR of its list whose events the
   deliveries are: getJob and getState of the job id of the PR's head; a job
   that has not failed is left alone. *)
ScanLook ==
  /\ scan.pc = "idle"
  /\ gh[1].state = "OPEN"
  /\ LET id == <<1, gh[1].headSha>>
     IN /\ jobs[id].state \in {"none", "failed"}
        /\ scan' = [pc |-> IF jobs[id].state = "failed" THEN "remove" ELSE "add",
                    id |-> id]
  /\ UNCHANGED <<gh, jobs, failures, deliveries, requests, created, failedOf, addedBy, ingressRest>>

\* existingJob.remove()
ScanRemove ==
  /\ scan.pc = "remove"
  /\ jobs' = [jobs EXCEPT ![scan.id] = NoJob]
  /\ scan' = [scan EXCEPT !.pc = "add"]
  /\ UNCHANGED <<gh, failures, deliveries, requests, created, failedOf, addedBy, ingressRest>>

\* ingestQueue.add
ScanAdd ==
  /\ scan.pc = "add"
  /\ jobs' = QueueAdd(jobs, scan.id)
  /\ created' = [created EXCEPT ![scan.id] = @ + (IF AddCreates(jobs, scan.id) THEN 1 ELSE 0)]
  /\ scan' = NoScan
  /\ UNCHANGED <<gh, failures, deliveries, requests, failedOf, addedBy, ingressRest>>

\* The worker takes a waiting job.
IngressTake(id) ==
  /\ jobs[id].state = "waiting"
  /\ Cardinality(ActiveJobs) < workerConcurrency
  /\ jobs' = [jobs EXCEPT ![id].state = "active"]
  /\ UNCHANGED <<gh, failures, webVars, ingressRest>>

\* processIngestPr resolves: the job is completed and kept.
IngressComplete(id) ==
  /\ jobs[id].state = "active"
  /\ jobs' = [jobs EXCEPT ![id].state = "completed"]
  /\ UNCHANGED <<gh, failures, webVars, ingressRest>>

\* processIngestPr rejects: the job is failed and kept.
IngressFail(id) ==
  /\ jobs[id].state = "active"
  /\ failures < MaxFailures
  /\ failures' = failures + 1
  /\ jobs' = [jobs EXCEPT ![id].state = "failed"]
  /\ failedOf' = [failedOf EXCEPT ![id] = @ + 1]
  /\ UNCHANGED <<gh, deliveries, requests, scan, created, addedBy, ingressRest>>

NextIngress ==
  \/ IngressPush
  \/ \E r \in Requests, d \in DeliveryIds : Receive(r, d)
  \/ \E r \in Requests : Reopen(r)
  \/ \E r \in Requests : Enqueue(r)
  \/ \E r \in Requests : MarkProcessed(r)
  \/ \E r \in Requests, marked \in BOOLEAN : RequestFails(r, marked)
  \/ ScanLook
  \/ ScanRemove
  \/ ScanAdd
  \/ \E id \in JobIds : IngressTake(id)
  \/ \E id \in JobIds : IngressComplete(id)
  \/ \E id \in JobIds : IngressFail(id)

SpecIngress == InitIngress /\ [][NextIngress]_vars

(* C12: however often and in whatever interleaving a delivery id is
   delivered, its requests create at most one ingest job, and its row is
   PROCESSED only when a job of its payload has been created. *)
C12_DeliveryEnqueuesAtMostOnce ==
  \A d \in DeliveryIds :
    /\ addedBy[d] <= 1
    /\ deliveries[d] = "PROCESSED" => created[JobIdOfDelivery(d)] >= 1

HandlerStep == \E r \in Requests : Reopen(r) \/ Enqueue(r) \/ MarkProcessed(r)

\* GitHub delivers, or delivers again, an event.
Delivery == \E r \in Requests, d \in DeliveryIds : Receive(r, d)

\* The worker takes a job and runs it to its end.
IngressWorkerStep == \E id \in JobIds : IngressTake(id) \/ IngressComplete(id)

(* The ways into the queue with what the scheduling gives: a request in
   flight goes on unless a call of it throws or the process stops, a job is
   run, and a delivery that the route would take up is sent again until it
   is. *)
SpecRedelivery ==
  /\ InitIngress /\ [][NextIngress]_vars
  /\ WF_vars(HandlerStep) /\ WF_vars(IngressWorkerStep) /\ WF_vars(Delivery)

(* C26: a delivery whose row is RECEIVED does not stay so for ever without an
   ingest job of its head: when its handling was interrupted before the row
   was marked PROCESSED, SKIPPED or FAILED, a redelivery of the id is
   processed, so that the row leaves RECEIVED or a job of its head comes to
   be. *)
C26_ReceivedRowIsTakenUpAgain ==
  \A d \in DeliveryIds :
    (deliveries[d] = "RECEIVED") ~>
      (deliveries[d] # "RECEIVED" \/ jobs[JobIdOfDelivery(d)].state # "none")

-----------------------------------------------------------------------------
(* Specification of the closing of a PR: the webhook route and the worker of
   the pipeline together.  PR 2 has been analysed; PR 1 is opened, its
   "opened" event d1 is delivered, and once it has been closed on GitHub its
   "closed" event dc is delivered, both with the head h1 in their payload. *)

ClosingDeliveryIds == {"d1", "dc"}

InitClosing ==
  /\ mode = "closing"
  /\ gh = [p \in PrIds |-> [headSha |-> "h1", state |-> "OPEN"]]
  /\ pull_requests = [p \in PrIds |->
       IF p = 2 THEN [state |-> "OPEN", headSha |-> "h1",
                      lastAnalyzedHeadSha |-> "h1", analysisStatus |-> "DONE"]
       ELSE NoRow]
  /\ jobs = [id \in JobIds |-> NoJob]
  /\ pathRows = {<<2, "h1">>} /\ sigRows = {<<2, "h1">>}
  /\ runs = <<[prId |-> 2, headSha |-> "h1", status |-> "DONE",
               degradedReasons |-> {}]>>
  /\ edges = {}
  /\ lsh = { <<bucketId, <<2, "h1">>>> : bucketId \in BucketIdsOf(ContentOf(2, "h1")) }
  /\ started = 0 /\ failures = 0
  /\ deliveries = [d \in ClosingDeliveryIds |-> "NONE"]
  /\ requests = [r \in Requests |-> NoRequest]
  /\ scan = NoScan
  /\ created = [id \in JobIds |-> 0]
  /\ failedOf = [id \in JobIds |-> 0]
  /\ addedBy = [d \in ClosingDeliveryIds |-> 0]
  /\ ScoreIdle /\ DiffIdle /\ PairIdle /\ IndexIdle /\ GenIdle /\ CfgIdle /\ CursorIdle
  /\ LateIdle

\* PR 1 is closed on GitHub without having been merged.
CloseOnGitHub ==
  /\ gh[1].state = "OPEN"
  /\ gh' = [gh EXCEPT ![1].state = "CLOSED"]
  /\ UNCHANGED <<jobs, failures, webVars, ingressRest>>

\* GitHub sends the "closed" event once the PR is closed.
ReceiveClosed(r) == gh[1].state = "CLOSED" /\ Receive(r, "dc")

\* The steps of the route once the delivery row is written.
RouteStep == \E r \in Requests : Enqueue(r) \/ MarkProcessed(r)

\* The steps of processIngestPr and the worker slot that takes a job.
WorkerStep ==
  \E id \in JobIds :
    \/ StartJob(id)
    \/ ReplaceFilesPathsSymbols(id)
    \/ UpsertChannelSignatures(id)
    \/ InsertAnalysisRun(id)
    \/ ExactHashLookup(id)
    \/ LshLookup(id)
    \/ PathLookup(id)
    \/ SymbolLookup(id)
    \/ ScoreCandidates(id)
    \/ InsertCandidateEdge(id)
    \/ InsertIntoLsh(id)
    \/ FinishAnalysisRun(id)
    \/ UpdateAnalysisStatus(id)

NextClosing ==
  \/ CloseOnGitHub
  \/ \E r \in Requests : Receive(r, "d1")
  \/ \E r \in Requests : ReceiveClosed(r)
  \/ RouteStep
  \/ WorkerStep

(* A request that has written its delivery row goes on to the end of the
   handler, and a job in the queue is taken and run to its end by the worker;
   nothing is assumed of when GitHub sends an event. *)
SpecClosing ==
  InitClosing /\ [][NextClosing]_vars /\ WF_vars(RouteStep) /\ WF_vars(WorkerStep)

(* C24: once the "closed" event of a PR has been accepted and marked
   PROCESSED, the state of the PR's row comes to be other than OPEN, also when
   the ingest job of the head had been queued or had completed before. *)
C24_ClosedEventClosesTheRow ==
  (deliveries["dc"] = "PROCESSED") ~> (pull_requests[1].state # "OPEN")

-----------------------------------------------------------------------------
(* Specification of the LSH index in Redis and of the lookups of an analysis,
   with two repositories and workers of two signature versions *)

RepoIds == {1, 2}

\* runtime.signatureVersion of the worker processes that are deployed.
SignatureVersions == {1, 2}

\* PRs 1 and 2 are of repository 1, PR 3 is of repository 2.
IndexPrIds == {1, 2, 3}

repoIdOfPr(prId) == IF prId = 3 THEN 2 ELSE 1

\* `${prId}:${headSha}`
memberOf(prId) == <<prId, "h1">>

IndexMembers == { memberOf(prId) : prId \in IndexPrIds }

\* lshBucketIds(prodSignature) of the three heads, in the order of the
\* pipeline: they carry the same change, PRs 2 and 3 with one band that
\* differs.
bucketIdsOfPr(prId) == IF prId = 1 THEN <<"b1", "b2">> ELSE <<"b1">>

IndexBucketIds == {"b1", "b2"}

\* The canonical diff hash of the three heads.
hashOfPr(prId) == "x"

\* thresholds.candidates.recent_pr_window_days; time is counted in days.
recent_pr_window_days == 2

ttlSeconds == recent_pr_window_days

\* How long the clock runs, and how many analyses start.
MaxDays == 2
MaxAnalyses == 3

\* The key with the signature version left out.
lshRedisKey_withoutVersion(repoId, bucketId, signatureVersion) ==
  <<"lsh:production", 1, repoId, bucketId>>

lshRedisKey(repoId, bucketId, signatureVersion) ==
  <<"lsh:production", signatureVersion, repoId, bucketId>>

RedisKeys ==
  { lshRedisKey(repoId, bucketId, signatureVersion) :
      repoId \in RepoIds, bucketId \in IndexBucketIds,
      signatureVersion \in SignatureVersions }

\* A key that does not exist; expireAt -1 is a key without a time to live.
NoKey == [members |-> {}, expireAt |-> -1]

\* SET in place of SADD: the member replaces what the key held.
sadd_replacing(entry, member) == [entry EXCEPT !.members = {member}]

sadd(entry, member) == [entry EXCEPT !.members = @ \cup {member}]

\* EXPIRE sets the time to live of the whole key, and of an existing key only.
expire(entry, at, seconds) ==
  IF entry.members = {} THEN entry ELSE [entry EXCEPT !.expireAt = at + seconds]

smembers(key) == redis[key].members

\* The commands insertIntoLsh puts into its pipeline.
pipelineOf(repoId, prId, signatureVersion) ==
  [ i \in 1 .. 2 * Len(bucketIdsOfPr(prId)) |->
      [op  |-> IF i % 2 = 1 THEN "sadd" ELSE "expire",
       bucketId |-> bucketIdsOfPr(prId)[(i + 1) \div 2],
       key |-> lshRedisKey(repoId, bucketIdsOfPr(prId)[(i + 1) \div 2],
                           signatureVersion)] ]

\* The worker processes: worker 1 runs signature version 1 and takes the jobs
\* of repository 1; worker 2 is the one being redeployed, it runs PR 1 again
\* under version 1 or takes the jobs of PRs 2 and 3 under version 2.
Writers == {1, 2}

TakenBy(w, prId, signatureVersion) ==
  IF w = 1 THEN signatureVersion = 1 /\ prId \in {1, 2}
  ELSE IF signatureVersion = 1 THEN prId = 1 ELSE prId \in {2, 3}

NoWriter == [pc |-> "idle", prId |-> 0, signatureVersion |-> 0, next |-> 0]

InitIndex ==
  /\ mode = "index"
  /\ now = 0
  /\ redis = [key \in RedisKeys |-> NoKey]
  /\ signatures = {}
  /\ writers = [w \in Writers |-> NoWriter]
  /\ analyses = 0
  /\ insertedAt = [key \in RedisKeys |-> [member \in IndexMembers |-> -1]]
  /\ ScoreIdle /\ DiffIdle /\ PairIdle /\ PipeIdle /\ WebIdle /\ GenIdle /\ CfgIdle
  /\ CursorIdle /\ LateIdle

indexRest ==
  <<mode, scoreVars, diffVars, pairVars, pipeVars, webVars, genVars, cfgVars, cursorVars,
    lateVars>>

\* findCandidatesByCanonicalDiffHash: the conditions on pr_channel_signatures.
\* Every PR here is OPEN and at the head that was analysed.
ExactHashRows(repoId, canonicalDiffHash, signatureVersion, excludePrId) ==
  { row \in signatures :
      /\ row.repo_id = repoId
      /\ row.signature_version = signatureVersion
      /\ row.canonical_diff_hash = canonicalDiffHash
      /\ row.pr_id # excludePrId }

\* getProductionSignature
ProductionSignatureRows(repoId, prId, headSha, signatureVersion) ==
  { row \in signatures :
      /\ row.repo_id = repoId
      /\ row.pr_id = prId
      /\ row.head_sha = headSha
      /\ row.signature_version = signatureVersion }

\* getLshCandidatePrIds: the members of the target's buckets, with the bucket
\* each was read from.
LshRows(repoId, prId, signatureVersion) ==
  UNION { { [bucketId |-> bucketIdsOfPr(prId)[i], member |-> member] :
              member \in smembers(lshRedisKey(repoId, bucketIdsOfPr(prId)[i],
                                              signatureVersion)) } :
          i \in 1 .. Len(bucketIdsOfPr(prId)) }

\* A job of the PR starts on a worker: upsertChannelSignature of the
\* PRODUCTION channel (primary key pr_id, head_sha, channel, signature_version).
UpsertSignature(w, prId, signatureVersion) ==
  /\ writers[w].pc = "idle"
  /\ TakenBy(w, prId, signatureVersion)
  /\ analyses < MaxAnalyses
  /\ analyses' = analyses + 1
  /\ signatures' =
       { row \in signatures :
           ~ (/\ row.pr_id = prId
              /\ row.head_sha = memberOf(prId)[2]
              /\ row.signature_version = signatureVersion) }
       \cup { [repo_id |-> repoIdOfPr(prId), pr_id |-> prId,
               head_sha |-> memberOf(prId)[2],
               signature_version |-> signatureVersion,
               canonical_diff_hash |-> hashOfPr(prId)] }
  /\ writers' = [writers EXCEPT ![w] =
       [pc |-> "insert", prId |-> prId, signatureVersion |-> signatureVersion,
        next |-> 1]]
  /\ UNCHANGED <<now, redis, insertedAt, indexRest>>

\* One command of the pipeline of insertIntoLsh reaches the server.
PipelineStep(w) ==
  /\ writers[w].pc = "insert"
  /\ LET wr == writers[w]
         cmds == pipelineOf(repoIdOfPr(wr.prId), wr.prId, wr.signatureVersion)
         cmd == cmds[wr.next]
         member == memberOf(wr.prId)
     IN /\ IF cmd.op = "sadd"
           THEN /\ redis' = [redis EXCEPT ![cmd.key] = sadd(@, member)]
                /\ insertedAt' = [insertedAt EXCEPT ![cmd.key][member] = now]
           ELSE /\ redis' = [redis EXCEPT ![cmd.key] = expire(@, now, ttlSeconds)]
                /\ UNCHANGED insertedAt
        /\ writers' = [writers EXCEPT ![w] =
             IF wr.next = Len(cmds) THEN NoWriter ELSE [wr EXCEPT !.next = @ + 1]]
  /\ UNCHANGED <<now, signatures, analyses, indexRest>>

Expired(key, at) == redis[key].expireAt # -1 /\ redis[key].expireAt <= at

\* A day passes, between pipelines (a pipeline is sent as one batch and takes
\* no day); Redis deletes the keys whose time to live has run out.
Tick ==
  /\ now < MaxDays
  /\ \A w \in Writers : writers[w].pc = "idle"
  /\ now' = now + 1
  /\ redis' = [key \in RedisKeys |->
                 IF Expired(key, now + 1) THEN NoKey ELSE redis[key]]
  /\ insertedAt' = [key \in RedisKeys |->
                 IF Expired(key, now + 1)
                 THEN [member \in IndexMembers |-> -1] ELSE insertedAt[key]]
  /\ UNCHANGED <<signatures, writers, analyses, indexRest>>

NextIndex ==
  \/ \E w \in Writers, prId \in IndexPrIds, signatureVersion \in SignatureVersions :
       UpsertSignature(w, prId, signatureVersion)
  \/ \E w \in Writers : PipelineStep(w)
  \/ Tick

SpecIndex == InitIndex /\ [][NextIndex]_vars

\* C14: an entry of an LSH bucket is gone once the recent-PR window has
\* elapsed since it was inserted: no key holds a member whose latest insert
\* is a window or more ago.
C14_EntryExpiresAfterWindow ==
  \A key \in RedisKeys : \A member \in smembers(key) :
    now < insertedAt[key][member] + ttlSeconds

\* C15: inserting a head's bucket memberships again, also from pipelines that
\* overlap, leaves the membership as one insert leaves it: a key holds exactly
\* the members added to it since it came to be, however often they were added,
\* and a member is in no bucket but its own.
C15_RepeatedInsertKeepsMembership ==
  \A key \in RedisKeys :
    /\ smembers(key) = { member \in IndexMembers : insertedAt[key][member] >= 0 }
    /\ \A member \in smembers(key) :
         \E i \in 1 .. Len(bucketIdsOfPr(member[1])), signatureVersion \in SignatureVersions :
           key = lshRedisKey(repoIdOfPr(member[1]), bucketIdsOfPr(member[1])[i],
                             signatureVersion)

\* Two pipelines of the same head and version overlap, each has added the
\* member to the first bucket, and the bucket holds it beside another member.
C15_Witness ==
  /\ writers[1].pc = "insert" /\ writers[2].pc = "insert"
  /\ writers[1].prId = 1 /\ writers[2].prId = 1
  /\ writers[1].signatureVersion = writers[2].signatureVersion
  /\ writers[1].next = 2 /\ writers[2].next = 2
  /\ smembers(lshRedisKey(1, "b1", 1)) = {memberOf(1), memberOf(2)}

\* What the lookups of an analysis of the PR under the version return.
LookupsAreScoped(prId, signatureVersion) ==
  /\ \A row \in ExactHashRows(repoIdOfPr(prId), hashOfPr(prId), signatureVersion, prId) :
       /\ row.repo_id = repoIdOfPr(prId)
       /\ row.signature_version = signatureVersion
  /\ \A row \in LshRows(repoIdOfPr(prId), prId, signatureVersion) :
       /\ repoIdOfPr(row.member[1]) = repoIdOfPr(prId)
       /\ ProductionSignatureRows(repoIdOfPr(prId), row.member[1], row.member[2],
                                  signatureVersion) # {}
  /\ \A candidatePrId \in IndexPrIds :
       \A row \in ProductionSignatureRows(repoIdOfPr(prId), candidatePrId,
                                          memberOf(candidatePrId)[2], signatureVersion) :
         /\ row.repo_id = repoIdOfPr(prId)
         /\ row.signature_version = signatureVersion

\* C16: every lookup of an analysis is scoped by repository and signature
\* version: the rows of the exact-hash lookup and the signature loaded for
\* scoring are of the target's repository and version, and a member read from
\* the LSH index is a PR of the target's repository whose signature of the
\* target's version is stored.
C16_LookupsStayInRepoAndVersion ==
  \A prId \in IndexPrIds, signatureVersion \in SignatureVersions :
    LookupsAreScoped(prId, signatureVersion)

\* The lookups for PR 1 under version 2 find PR 2 by hash and in the index
\* while PR 2 is indexed under version 1 too and PR 3, of the other repository,
\* is indexed under version 2.
C16_Witness ==
  /\ LshRows(1, 1, 2) # {}
  /\ ExactHashRows(1, hashOfPr(1), 2, 1) # {}
  /\ memberOf(2) \in smembers(lshRedisKey(1, "b1", 1))
  /\ memberOf(3) \in smembers(lshRedisKey(2, "b1", 2))

-----------------------------------------------------------------------------
(* Specification of the candidate generator of processIngestPr: the four
   lookups of one analysis against a store with several matching PRs *)

\* The other PRs of the repository, all OPEN and analysed at head h1; the
\* target is PR 1.
GenPrIds == {2, 3, 4}

StrategyNames == {"exact", "lsh", "paths", "symbols"}

\* The ways a stored PR matches the target: not at all, by a shared path, in
\* a bucket and by a symbol, or in every way.
MatchKinds == { {}, {"paths"}, {"lsh", "symbols"}, StrategyNames }

\* The largest max_candidates_from_lsh that is loaded.
MaxLimit == 2

\* A CandidateRef as the queries return it.
CandidateRef(prId) == [prId |-> prId, headSha |-> "h1"]

\* The rows that match the target in the way of one strategy.
MatchingRefs(strategy) ==
  { CandidateRef(prId) : prId \in { q \in GenPrIds : strategy \in genStore[q] } }

\* getLshCandidatePrIds: the loop returns once prIds.length >= maxCandidates,
\* which it tests after the push.
LshPrIdCount(members, maxCandidates) ==
  IF members = {} THEN 0
  ELSE IF maxCandidates <= 0 THEN 1
  ELSE MinOf(maxCandidates, Cardinality(members))

NoGen ==
  [pc |-> "exact", candidateByKey |-> <<>>,
   returned |-> [strategy \in StrategyNames |-> {}],
   candidates |-> <<>>, scored |-> 0]

InitGen ==
  /\ mode = "gen"
  /\ genStore \in [GenPrIds -> MatchKinds]
  /\ genLimit \in 0 .. MaxLimit
  /\ gen = NoGen
  /\ ScoreIdle /\ DiffIdle /\ PairIdle /\ PipeIdle /\ WebIdle /\ IndexIdle /\ CfgIdle
  /\ CursorIdle /\ LateIdle

genRest ==
  <<mode, scoreVars, diffVars, pairVars, pipeVars, webVars, indexVars, cfgVars, cursorVars,
    lateVars>>

\* The rows of one query are put into candidateByKey.
GenRetrieved(strategy, rows, nextPc) ==
  /\ gen' = [gen EXCEPT !.pc = nextPc,
                        !.candidateByKey = SetAll(@, rows),
                        !.returned[strategy] = { rows[i] : i \in 1 .. Len(rows) }]
  /\ UNCHANGED <<genStore, genLimit, genRest>>

\* findCandidatesByCanonicalDiffHash ... LIMIT max_candidates_from_lsh
GenExact ==
  /\ gen.pc = "exact"
  /\ \E rows \in LimitRows(MatchingRefs("exact"), genLimit) :
       GenRetrieved("exact", rows, "lsh")

\* getLshCandidatePrIds with maxCandidates, then getCurrentHeadsForPrIds
\* ... LIMIT max_candidates_from_lsh
GenLsh ==
  /\ gen.pc = "lsh"
  /\ \E members \in LimitRows(MatchingRefs("lsh"),
                              LshPrIdCount(MatchingRefs("lsh"), genLimit)) :
       \E rows \in LimitRows({ members[i] : i \in 1 .. Len(members) }, genLimit) :
         GenRetrieved("lsh", rows, "paths")

\* findCandidatesByPaths ... LIMIT max_candidates_from_lsh
GenPaths ==
  /\ gen.pc = "paths"
  /\ \E rows \in LimitRows(MatchingRefs("paths"), genLimit) :
       GenRetrieved("paths", rows, "symbols")

\* findCandidatesBySymbols ... LIMIT max_candidates_from_lsh
GenSymbols ==
  /\ gen.pc = "symbols"
  /\ \E rows \in LimitRows(MatchingRefs("symbols"), genLimit) :
       GenRetrieved("symbols", rows, "slice")

\* candidates = Array.from(candidateByKey.values()).slice(0, max_candidates_from_lsh)
GenSlice ==
  /\ gen.pc = "slice"
  /\ gen' = [gen EXCEPT !.pc = "score",
                        !.candidates = SubSeq(gen.candidateByKey, 1,
                                         MinOf(Len(gen.candidateByKey), genLimit))]
  /\ UNCHANGED <<genStore, genLimit, genRest>>

\* The scoring loop, for (const candidate of candidates), one turn of it.
GenScoreOne ==
  /\ gen.pc = "score"
  /\ gen' = IF gen.scored < Len(gen.candidates)
            THEN [gen EXCEPT !.scored = @ + 1]
            ELSE [gen EXCEPT !.pc = "done"]
  /\ UNCHANGED <<genStore, genLimit, genRest>>

NextGen ==
  \/ GenExact
  \/ GenLsh
  \/ GenPaths
  \/ GenSymbols
  \/ GenSlice
  \/ GenScoreOne

SpecGen == InitGen /\ [][NextGen]_vars

\* C17: the candidate generator stays bounded: no strategy contributes more
\* rows than the configured maximum, the union is cut to the maximum before
\* the scoring loop starts, and no more candidates than that are scored.
C17_GeneratorIsBounded ==
  /\ \A strategy \in StrategyNames : Cardinality(gen.returned[strategy]) <= genLimit
  /\ Len(gen.candidateByKey) <= Cardinality(StrategyNames) * genLimit
  /\ gen.pc \in {"score", "done"} => Len(gen.candidates) <= genLimit
  /\ gen.scored <= genLimit

\* A run in which a strategy had more rows than the maximum to return, the
\* union outgrew the maximum, and the maximum was scored.
C17_Witness ==
  /\ gen.pc = "done"
  /\ genLimit >= 1
  /\ \E strategy \in StrategyNames : Cardinality(MatchingRefs(strategy)) > genLimit
  /\ Len(gen.candidateByKey) > genLimit
  /\ gen.scored = genLimit

\* C18: every candidate of the generated list is tagged with how it was found
\* (exact-hash, LSH bucket, path-overlap, symbol-overlap), and a (prId,
\* headSha) pair retrieved by several strategies is in the union once, with
\* all the strategies that retrieved it.
C18_CandidatesCarryProvenance ==
  /\ \A i, j \in 1 .. Len(gen.candidateByKey) :
       i # j => gen.candidateByKey[i] # gen.candidateByKey[j]
  /\ \A i \in 1 .. Len(gen.candidateByKey) :
       /\ "foundBy" \in DOMAIN gen.candidateByKey[i]
       /\ \A strategy \in StrategyNames :
            CandidateRef(gen.candidateByKey[i].prId) \in gen.returned[strategy]
              => strategy \in gen.candidateByKey[i].foundBy

-----------------------------------------------------------------------------
(* Specification of the configuration loader and of the start of the worker *)

\* What YAML.parse can put at a path: nothing, a finite number, a number that
\* is not finite, a string, a boolean, an array of strings, an array with
\* another entry, a mapping.
ValueKinds ==
  {"missing", "number", "nan", "string", "boolean", "strings", "mixed", "object"}

ChannelKeys == {"tests", "docs", "meta", "production"}

\* interface ClassificationRules: the fields without a question mark, each
\* with the kind of value its type asks for.
RulesRequired ==
  {<< <<"version">>, "number" >>} \cup
  { << <<"channels", channelKey, field>>, "strings" >> :
      channelKey \in ChannelKeys, field \in {"path_globs", "extensions"} }

\* ast_refinements?: { test_framework_imports?, test_function_names? }
RulesOptional ==
  { << <<"ast_refinements", field>>, "strings" >> :
      field \in {"test_framework_imports", "test_function_names"} }

\* interface Thresholds: the fields without a question mark.
ThresholdsRequired ==
  {<< <<"version">>, "number" >>} \cup
  { << <<"actions", field>>, "boolean" >> :
      field \in {"publish_check_run", "apply_labels", "post_comment_on_same_change"} } \cup
  { << <<"candidates", field>>, "number" >> :
      field \in {"max_candidates_from_lsh", "max_candidates_final",
                 "recent_pr_window_days"} } \cup
  { << <<"similarity", "same_change", field>>, "number" >> :
      field \in {"prod_minhash_threshold", "prod_files_overlap_threshold"} } \cup
  { << <<"similarity", "same_feature", field>>, "number" >> :
      field \in {"prod_score_threshold", "supporting_signal_min"} } \cup
  { << <<"similarity", "competing_impl", field>>, "number" >> :
      field \in {"tests_intent_threshold", "prod_score_max"} } \cup
  { << <<"caps", field>>, "number" >> : field \in {"test_score_cap", "doc_score_cap"} } \cup
  { << <<"weights", "production", field>>, "number" >> :
      field \in {"minhash", "exports", "symbols", "files", "imports"} } \cup
  {<< <<"weights", "tests", "intent">>, "number" >>,
   << <<"weights", "docs", "structure">>, "number" >>}

Prefixes(path) == { SubSeq(path, 1, k) : k \in 0 .. Len(path) }

PathsOf(fields) == UNION { Prefixes(field[1]) : field \in fields }

\* A document with every field in place; <<>> is the document itself.
GoodDoc(fields) ==
  [path \in PathsOf(fields) |->
     IF \E field \in fields : field[1] = path
     THEN (CHOOSE field \in fields : field[1] = path)[2]
     ELSE "object"]

\* How many values of a document are not what they should be.
MaxDefects == 1

RECURSIVE WithDefects(_, _)
WithDefects(doc, defects) ==
  IF defects = <<>> THEN doc
  ELSE WithDefects([doc EXCEPT ![Head(defects)[1]] = Head(defects)[2]], Tail(defects))

DocsOf(fields) ==
  { WithDefects(GoodDoc(fields), defects) :
      defects \in SeqsUpTo(PathsOf(fields) \X ValueKinds, MaxDefects) }

\* doc.a.b as JavaScript reads it: a property of a value that is no mapping
\* is undefined, a property of undefined is a TypeError ("throw").
RECURSIVE Get(_, _)
Get(doc, path) ==
  IF path = <<>> THEN doc[path]
  ELSE LET parent == Get(doc, SubSeq(path, 1, Len(path) - 1))
       IN IF parent = "object" THEN doc[path]
          ELSE IF parent \in {"missing", "throw"} THEN "throw"
          ELSE "missing"

\* typeof value === "number" without the test for a finite value.
assertNumber_typeofOnly(value) == value \in {"number", "nan"}

\* The assert functions: TRUE where they return, FALSE where they throw.
assertNumber(value) == value = "number"

assertBoolean(value) == value = "boolean"

assertStringArray(value) == value = "strings"

Falsy(value) == value \in {"missing", "throw"}

parseChannel(doc, channelKey) ==
  /\ ~ Falsy(Get(doc, <<"channels", channelKey>>))
  /\ assertStringArray(Get(doc, <<"channels", channelKey, "path_globs">>))
  /\ assertStringArray(Get(doc, <<"channels", channelKey, "extensions">>))

loadClassificationRules(doc) ==
  IF /\ ~ Falsy(Get(doc, <<"channels">>))
     /\ assertNumber(Get(doc, <<"version">>))
     /\ parseChannel(doc, "tests")
     /\ parseChannel(doc, "docs")
     /\ parseChannel(doc, "meta")
     /\ parseChannel(doc, "production")
     /\ \/ Falsy(Get(doc, <<"ast_refinements">>))
        \/ /\ assertStringArray(Get(doc, <<"ast_refinements", "test_framework_imports">>))
           /\ assertStringArray(Get(doc, <<"ast_refinements", "test_function_names">>))
  THEN "loaded" ELSE "error"

loadThresholds(doc) ==
  IF /\ Get(doc, <<"similarity", "same_change">>) # "throw"
     /\ Get(doc, <<"similarity", "same_feature">>) # "throw"
     /\ Get(doc, <<"similarity", "competing_impl">>) # "throw"
     /\ Get(doc, <<"weights", "production">>) # "throw"
     /\ Get(doc, <<"weights", "tests">>) # "throw"
     /\ Get(doc, <<"weights", "docs">>) # "throw"
     /\ assertNumber(Get(doc, <<"version">>))
     /\ assertBoolean(Get(doc, <<"actions", "publish_check_run">>))
     /\ assertBoolean(Get(doc, <<"actions", "apply_labels">>))
     /\ assertBoolean(Get(doc, <<"actions", "post_comment_on_same_change">>))
     /\ assertNumber(Get(doc, <<"candidates", "max_candidates_from_lsh">>))
     /\ assertNumber(Get(doc, <<"candidates", "max_candidates_final">>))
     /\ assertNumber(Get(doc, <<"candidates", "recent_pr_window_days">>))
     /\ assertNumber(Get(doc, <<"similarity", "same_change", "prod_minhash_threshold">>))
     /\ assertNumber(Get(doc, <<"similarity", "same_change", "prod_files_overlap_threshold">>))
     /\ assertNumber(Get(doc, <<"similarity", "same_feature", "prod_score_threshold">>))
     /\ assertNumber(Get(doc, <<"similarity", "same_feature", "supporting_signal_min">>))
     /\ assertNumber(Get(doc, <<"similarity", "competing_impl", "tests_intent_threshold">>))
     /\ assertNumber(Get(doc, <<"similarity", "competing_impl", "prod_score_max">>))
     /\ assertNumber(Get(doc, <<"caps", "test_score_cap">>))
     /\ assertNumber(Get(doc, <<"caps", "doc_score_cap">>))
     /\ assertNumber(Get(doc, <<"weights", "production", "minhash">>))
     /\ assertNumber(Get(doc, <<"weights", "production", "exports">>))
     /\ assertNumber(Get(doc, <<"weights", "production", "symbols">>))
     /\ assertNumber(Get(doc, <<"weights", "production", "files">>))
     /\ assertNumber(Get(doc, <<"weights", "production", "imports">>))
     /\ assertNumber(Get(doc, <<"weights", "tests", "intent">>))
     /\ assertNumber(Get(doc, <<"weights", "docs", "structure">>))
  THEN "loaded" ELSE "error"

\* One of the two files is the one with defects.
InitConfig ==
  /\ mode = "config"
  /\ \/ /\ cfgDoc \in [rules : DocsOf(RulesRequired \cup RulesOptional),
                       thresholds : {GoodDoc(ThresholdsRequired)}]
     \/ /\ cfgDoc \in [rules : {GoodDoc(RulesRequired \cup RulesOptional)},
                       thresholds : DocsOf(ThresholdsRequired)]
  /\ cfgWorker = [pc |-> "start", rules |-> "unloaded", thresholds |-> "unloaded",
                  analysed |-> FALSE]
  /\ ScoreIdle /\ DiffIdle /\ PairIdle /\ PipeIdle /\ WebIdle /\ IndexIdle /\ GenIdle
  /\ CursorIdle /\ LateIdle

cfgRest ==
  <<mode, scoreVars, diffVars, pairVars, pipeVars, webVars, indexVars, genVars, cursorVars,
    lateVars>>

\* const rules = loadClassificationRules(): a throw ends the process.
LoadRules ==
  /\ cfgWorker.pc = "start"
  /\ cfgWorker' = [cfgWorker EXCEPT
       !.rules = loadClassificationRules(cfgDoc.rules),
       !.pc = IF loadClassificationRules(cfgDoc.rules) = "loaded"
              THEN "rulesLoaded" ELSE "crashed"]
  /\ UNCHANGED <<cfgDoc, cfgRest>>

\* const thresholds = loadThresholds(); the workers are created after it.
LoadThresholds ==
  /\ cfgWorker.pc = "rulesLoaded"
  /\ cfgWorker' = [cfgWorker EXCEPT
       !.thresholds = loadThresholds(cfgDoc.thresholds),
       !.pc = IF loadThresholds(cfgDoc.thresholds) = "loaded"
              THEN "running" ELSE "crashed"]
  /\ UNCHANGED <<cfgDoc, cfgRest>>

\* The ingest worker runs a job.
RunAnalysis ==
  /\ cfgWorker.pc = "running"
  /\ ~ cfgWorker.analysed
  /\ cfgWorker' = [cfgWorker EXCEPT !.analysed = TRUE]
  /\ UNCHANGED <<cfgDoc, cfgRest>>

NextConfig ==
  \/ LoadRules
  \/ LoadThresholds
  \/ RunAnalysis

SpecConfig == InitConfig /\ [][NextConfig]_vars

\* Every required field is where the type has it and of the type's kind.
Complete(doc, fields) ==
  \A field \in fields :
    /\ \A prefix \in Prefixes(field[1]) \ {field[1]} : doc[prefix] = "object"
    /\ doc[field[1]] = field[2]

\* C19: classification rules or thresholds with a required field missing or
\* malformed fail at load time: a document that was loaded is complete, and
\* no analysis runs unless both documents are.
C19_IncompleteConfigFailsAtLoad ==
  /\ cfgWorker.rules = "loaded" => Complete(cfgDoc.rules, RulesRequired)
  /\ cfgWorker.thresholds = "loaded" => Complete(cfgDoc.thresholds, ThresholdsRequired)
  /\ cfgWorker.analysed =>
       /\ Complete(cfgDoc.rules, RulesRequired)
       /\ Complete(cfgDoc.thresholds, ThresholdsRequired)

\* The worker has ended at the load of thresholds in which one weight is a
\* number that is not finite.
C19_Witness ==
  /\ cfgWorker.pc = "crashed"
  /\ cfgWorker.rules = "loaded" /\ cfgWorker.thresholds = "error"
  /\ cfgDoc.thresholds[<<"weights", "production", "minhash">>] = "nan"
  /\ ~ cfgWorker.analysed

-----------------------------------------------------------------------------
(* Specification of the pages of GET /api/repos/:repoId/duplicate-sets and of
   the cursor between them *)

SetIds == {"sa", "sb", "sc"}

\* localeCompare of two set ids.
IdRank(setId) == IF setId = "sa" THEN 1 ELSE IF setId = "sb" THEN 2 ELSE 3

\* The largest limit a request names.
MaxPageLimit == 2

\* A DuplicateSetSummary as far as the route reads it: categories stands for
\* categories.length, lastAnalyzedAt for the time of the Date.
DuplicateSetSummaries ==
  [setId : SetIds, size : {2, 3}, maxScore : {1, 2}, categories : {1, 2},
   lastAnalyzedAt : {1, 2}]

toSortKeyFromSummary(set) ==
  [maxScore |-> set.maxScore, categoryCount |-> set.categories, size |-> set.size,
   lastAnalyzedAtMs |-> set.lastAnalyzedAt, setId |-> set.setId]

\* The sign of compareDuplicateSetSortKeys(a, b).
compareDuplicateSetSortKeys(a, b) ==
  IF a.maxScore # b.maxScore THEN (IF a.maxScore > b.maxScore THEN -1 ELSE 1)
  ELSE IF a.categoryCount # b.categoryCount THEN a.categoryCount - b.categoryCount
  ELSE IF a.size # b.size THEN a.size - b.size
  ELSE IF a.lastAnalyzedAtMs # b.lastAnalyzedAtMs
       THEN (IF a.lastAnalyzedAtMs > b.lastAnalyzedAtMs THEN -1 ELSE 1)
  ELSE IdRank(a.setId) - IdRank(b.setId)

compareDuplicateSets(a, b) ==
  compareDuplicateSetSortKeys(toSortKeyFromSummary(a), toSortKeyFromSummary(b))

\* JavaScript values with their typeof, and objects as their properties in
\* order.
Num(n) == [t |-> "number", v |-> <<n>>]
Str(x) == [t |-> "string", v |-> <<x>>]
Undefined == [t |-> "undefined", v |-> <<>>]

\* Date.prototype.toISOString and new Date(text).getTime() of such a text.
toISOString(ms) == <<"iso", ms>>

IsDateText(x) == Len(x) = 1 /\ Len(x[1]) = 2 /\ x[1][1] = "iso"

Prop(object, key) ==
  IF \E i \in 1 .. Len(object) : object[i][1] = key
  THEN object[CHOOSE i \in 1 .. Len(object) : object[i][1] = key][2]
  ELSE Undefined

\* Buffer.from(JSON.stringify(cursor), "utf8").toString("base64url"): the text
\* holds the properties the object has, in their order.
encodeDuplicateSetCursor(cursor) == <<"base64url", <<"json", cursor>>>>

NoCursorText == <<"null">>

\* A query value that is no base64url of a JSON text.
InvalidText == <<"invalid">>

Rejected == [valid |-> FALSE]

decodeDuplicateSetCursor(value) ==
  IF ~ (Len(value) = 2 /\ value[1] = "base64url") THEN Rejected
  ELSE LET decoded == value[2][2]
           maxScore == Prop(decoded, "maxScore")
           categoryCount == Prop(decoded, "categoryCount")
           size == Prop(decoded, "size")
           lastAnalyzedAt == Prop(decoded, "lastAnalyzedAt")
           setId == Prop(decoded, "setId")
       IN IF \/ maxScore.t # "number"
             \/ categoryCount.t # "number"
             \/ categoryCount.v[1] < 1
             \/ size.t # "number"
             \/ size.v[1] < 2
             \/ lastAnalyzedAt.t # "string"
             \/ ~ IsDateText(lastAnalyzedAt.v)
             \/ setId.t # "string"
          THEN Rejected
          ELSE [valid |-> TRUE, maxScore |-> maxScore.v[1],
                categoryCount |-> categoryCount.v[1], size |-> size.v[1],
                lastAnalyzedAt |-> lastAnalyzedAt.v[1], setId |-> setId.v[1]]

\* The cursor object the route hands to encodeDuplicateSetCursor.
RouteCursorOf(last) ==
  << <<"maxScore", Num(last.maxScore)>>,
     <<"lastAnalyzedAt", Str(toISOString(last.lastAnalyzedAt))>>,
     <<"setId", Str(last.setId)>> >>

\* A cursor object with the five fields of DuplicateSetCursor.
FullCursorOf(set) ==
  << <<"maxScore", Num(set.maxScore)>>,
     <<"categoryCount", Num(set.categories)>>,
     <<"size", Num(set.size)>>,
     <<"lastAnalyzedAt", Str(toISOString(set.lastAnalyzedAt))>>,
     <<"setId", Str(set.setId)>> >>

\* The cursorSet the route compares the sets with: size 0, categories [].
cursorSetOf(cursor) ==
  [setId |-> cursor.setId, size |-> 0, maxScore |-> cursor.maxScore,
   categories |-> 0, lastAnalyzedAt |-> cursor.lastAnalyzedAt[2]]

RECURSIVE FilterSeq(_, _)
FilterSeq(sets, cursorSet) ==
  IF sets = <<>> THEN <<>>
  ELSE IF compareDuplicateSets(Head(sets), cursorSet) > 0
       THEN <<Head(sets)>> \o FilterSeq(Tail(sets), cursorSet)
       ELSE FilterSeq(Tail(sets), cursorSet)

\* out.sort(compareDuplicateSets), of sets with different members.
IsSortedSets(sets) ==
  \A i, j \in 1 .. Len(sets) :
    i < j => /\ sets[i].setId # sets[j].setId
             /\ compareDuplicateSets(sets[i], sets[j]) < 0

NoResponse == [status |-> 0, sets |-> <<>>, nextCursor |-> NoCursorText]

InitCursor ==
  /\ mode = "cursor"
  /\ dupSets \in { sets \in [1 .. 3 -> DuplicateSetSummaries] : IsSortedSets(sets) }
  /\ pageLimit \in 1 .. MaxPageLimit
  /\ response = NoResponse
  /\ ScoreIdle /\ DiffIdle /\ PairIdle /\ PipeIdle /\ WebIdle /\ IndexIdle /\ GenIdle
  /\ CfgIdle /\ LateIdle

cursorRest ==
  <<mode, scoreVars, diffVars, pairVars, pipeVars, webVars, indexVars, genVars, cfgVars,
    lateVars>>

\* The route handler, for a request with the cursor given (NoCursorText for a
\* request without one).
GetDuplicateSets(cursorRaw) ==
  /\ LET cursor == decodeDuplicateSetCursor(cursorRaw)
         sets == IF cursorRaw = NoCursorText THEN dupSets
                 ELSE FilterSeq(dupSets, cursorSetOf(cursor))
         hasMore == Len(sets) > pageLimit
         pageItems == IF hasMore THEN SubSeq(sets, 1, pageLimit) ELSE sets
     IN response' =
          IF cursorRaw # NoCursorText /\ ~ cursor.valid
          THEN [status |-> 400, sets |-> <<>>, nextCursor |-> NoCursorText]
          ELSE [status |-> 200, sets |-> pageItems,
                nextCursor |->
                  IF hasMore /\ pageItems # <<>>
                  THEN encodeDuplicateSetCursor(RouteCursorOf(pageItems[Len(pageItems)]))
                  ELSE NoCursorText]
  /\ UNCHANGED <<dupSets, pageLimit, cursorRest>>

\* The first page.
FirstPage == GetDuplicateSets(NoCursorText)

\* The client asks for the next page with the nextCursor it was given.
NextPage ==
  /\ response.nextCursor # NoCursorText
  /\ GetDuplicateSets(response.nextCursor)

\* A client sends a cursor of its own: one with the five fields, or no cursor
\* at all.
OwnCursor ==
  \/ \E i \in 1 .. Len(dupSets) :
       GetDuplicateSets(encodeDuplicateSetCursor(FullCursorOf(dupSets[i])))
  \/ GetDuplicateSets(InvalidText)

NextCursor ==
  \/ FirstPage
  \/ NextPage
  \/ OwnCursor

SpecCursor == InitCursor /\ [][NextCursor]_vars

\* C20: a nextCursor of the duplicate-sets route that is not null encodes the
\* full sort key of the last set of the page (maxScore, categoryCount, size,
\* lastAnalyzedAt, setId) and decodeDuplicateSetCursor accepts it.
C20_NextCursorHoldsFullSortKey ==
  response.nextCursor # NoCursorText =>
    LET decoded == decodeDuplicateSetCursor(response.nextCursor)
        last == response.sets[Len(response.sets)]
    IN /\ decoded.valid
       /\ decoded.maxScore = last.maxScore
       /\ decoded.categoryCount = last.categories
       /\ decoded.size = last.size
       /\ decoded.lastAnalyzedAt = toISOString(last.lastAnalyzedAt)
       /\ decoded.setId = last.setId

\* Where the last set of the page in hand stands in the sorted list.
PlaceOfLast ==
  CHOOSE k \in 1 .. Len(dupSets) :
    dupSets[k].setId = response.sets[Len(response.sets)].setId

\* The page of pageLimit sets that follows the first k sets of the list, and
\* a nextCursor that is null exactly when the list ends with the page.
IsPageAfter(k, answer) ==
  /\ answer.status = 200
  /\ answer.sets = SubSeq(dupSets, k + 1, MinOf(k + pageLimit, Len(dupSets)))
  /\ answer.nextCursor = NoCursorText <=> k + pageLimit >= Len(dupSets)

(* C28: with the sets unchanged, the first page and then every page asked for
   with the nextCursor of the page before it hold the sets of the sorted list
   one page after the other, so that every set is returned once and in sort
   order, and the nextCursor is null when the list has been gone through. *)
C28_PagingGoesThroughEverySet ==
  [][/\ GetDuplicateSets(NoCursorText) => IsPageAfter(0, response')
     /\ (/\ response.status = 200
         /\ response.nextCursor # NoCursorText
         /\ GetDuplicateSets(response.nextCursor))
          => IsPageAfter(PlaceOfLast, response')]_vars

-----------------------------------------------------------------------------
(* The classifier (packages/core/src/classification.ts) *)

(* A path is the sequence of its pieces: names and the separators "/" and
   "\" between them.  GitHub lists paths with "/"; a name may itself hold a
   "\" where the file system of the author allows it. *)
FilePaths ==
  { <<"src", "/", "a.ts">>,
    <<"tests", "/", "a.md">>,
    <<".cursor", "/", "tests", "/", "a.md">>,
    <<"tests", "\\", "a.md">> }

PathSeps == {"/", "\\"}

\* filePath.split(path.sep).join("/")
toPosix(filePath) ==
  [i \in 1 .. Len(filePath) |-> IF filePath[i] = sep THEN "/" ELSE filePath[i]]

\* The parts of a path between its "/": what minimatch matches a pattern's
\* parts against.
RECURSIVE SplitOnSlash(_, _)
SplitOnSlash(path, part) ==
  IF path = <<>> THEN <<part>>
  ELSE IF Head(path) = "/" THEN <<part>> \o SplitOnSlash(Tail(path), <<>>)
  ELSE SplitOnSlash(Tail(path), Append(part, Head(path)))

(* A glob is the sequence of its parts: "**", a name, or "*.md".  With
   { dot: true } a "*" and a "**" also match names that start with a dot. *)
Globs ==
  { <<".cursor", "**">>, <<"**", "tests", "**">>, <<"**", "*.md">>, <<"src", "**">> }

MarkdownNames == {"a.md"}

PartMatches(part, globPart) ==
  IF globPart = "*.md"
  THEN part # <<>> /\ part[Len(part)] \in MarkdownNames
  ELSE part = <<globPart>>

RECURSIVE PartsMatch(_, _)
PartsMatch(parts, glob) ==
  IF glob = <<>> THEN parts = <<>>
  ELSE IF Head(glob) = "**"
  THEN IF Tail(glob) = <<>> THEN parts # <<>>
       ELSE \/ PartsMatch(parts, Tail(glob))
            \/ parts # <<>> /\ PartsMatch(Tail(parts), glob)
  ELSE /\ parts # <<>>
       /\ PartMatches(Head(parts), Head(glob))
       /\ PartsMatch(Tail(parts), Tail(glob))

minimatch(filePath, pattern) == PartsMatch(SplitOnSlash(filePath, <<>>), pattern)

matchesGlob(filePath, globs) == \E pattern \in globs : minimatch(filePath, pattern)

FileChannels == {"META", "TESTS", "DOCS", "PRODUCTION"}

\* The TESTS globs tried before the META globs.
classifyPath_testsFirst(filePath) ==
  LET normalized == toPosix(filePath)
  IN IF matchesGlob(normalized, rules.channels.tests.path_globs) THEN "TESTS"
     ELSE IF matchesGlob(normalized, rules.channels.meta.path_globs) THEN "META"
     ELSE IF matchesGlob(normalized, rules.channels.docs.path_globs) THEN "DOCS"
     ELSE "PRODUCTION"

classifyPath(filePath) ==
  LET normalized == toPosix(filePath)
  IN IF matchesGlob(normalized, rules.channels.meta.path_globs) THEN "META"
     ELSE IF matchesGlob(normalized, rules.channels.tests.path_globs) THEN "TESTS"
     ELSE IF matchesGlob(normalized, rules.channels.docs.path_globs) THEN "DOCS"
     ELSE "PRODUCTION"

classifyFiles(files) ==
  [i \in 1 .. Len(files) |-> [path |-> files[i].path, channel |-> classifyPath(files[i].path)]]

-----------------------------------------------------------------------------
(* Specification of the classifier: rules are loaded, a PR head's changed
   files are listed, and classifyFiles is applied to them. *)

MaxChanged == 2

\* The path_globs a channel of the rules file may list.
GlobLists == { globs \in SUBSET Globs : Cardinality(globs) <= 1 }

RuleSets ==
  { [channels |-> [meta |-> [path_globs |-> me], tests |-> [path_globs |-> te],
                   docs |-> [path_globs |-> do], production |-> [path_globs |-> pr]]] :
      me \in GlobLists, te \in GlobLists, do \in GlobLists, pr \in GlobLists }

\* Changed files as the GitHub API lists them: no path twice.
ChangedLists ==
  { fl \in SeqsUpTo([path : FilePaths], MaxChanged) :
      /\ fl # <<>>
      /\ \A i, j \in 1 .. Len(fl) : i # j => fl[i].path # fl[j].path }

InitClassify ==
  /\ mode = "classify"
  /\ sep \in PathSeps
  /\ rules \in RuleSets
  /\ changed \in ChangedLists
  /\ classified = <<>>
  /\ ScoreIdle /\ DiffIdle /\ PairIdle /\ PipeIdle
  /\ WebIdle /\ IndexIdle /\ GenIdle /\ CfgIdle /\ CursorIdle

ClassifyFiles ==
  /\ mode = "classify"
  /\ classified = <<>>
  /\ classified' = classifyFiles(changed)
  /\ UNCHANGED <<mode, sep, rules, changed, scoreVars, diffVars, pairVars, pipeVars,
                 webVars, indexVars, genVars, cfgVars, cursorVars>>

NextClassify == ClassifyFiles

SpecClassify == InitClassify /\ [][NextClassify]_vars

-----------------------------------------------------------------------------
(* Claims about the classifier *)

ChannelRank ==
  [ch \in FileChannels |->
     CASE ch = "META" -> 1 [] ch = "TESTS" -> 2 [] ch = "DOCS" -> 3
       [] ch = "PRODUCTION" -> 4]

GlobsOfChannel(ch) ==
  CASE ch = "META" -> rules.channels.meta.path_globs
    [] ch = "TESTS" -> rules.channels.tests.path_globs
    [] ch = "DOCS" -> rules.channels.docs.path_globs
    [] ch = "PRODUCTION" -> rules.channels.production.path_globs

\* The channels whose globs the path matches.
MatchingChannels(filePath) ==
  { ch \in FileChannels : matchesGlob(toPosix(filePath), GlobsOfChannel(ch)) }

\* C22: every changed file is given one channel of the four, and a file whose
\* path matches the globs of several channels is given the one of them that
\* comes first in the order META, TESTS, DOCS, PRODUCTION (and a file that
\* matches the globs of one channel only is given that channel).
C22_OneChannelByPrecedence ==
  classified # <<>> =>
    /\ Len(classified) = Len(changed)
    /\ \A i \in 1 .. Len(changed) :
         /\ classified[i].path = changed[i].path
         /\ classified[i].channel \in FileChannels
         /\ LET matching == MatchingChannels(changed[i].path)
            IN matching # {} =>
                 /\ classified[i].channel \in matching
                 /\ \A ch \in matching :
                      ChannelRank[classified[i].channel] <= ChannelRank[ch]

\* A file under .cursor/tests with a markdown name, under rules whose META,
\* TESTS and DOCS globs all match it, came out as META.
C22_Witness ==
  /\ classified # <<>>
  /\ \E i \in 1 .. Len(changed) :
       /\ {"META", "TESTS", "DOCS"} \subseteq MatchingChannels(changed[i].path)
       /\ classified[i].channel = "META"

=============================================================================
